---- MODULE Spec2Model ----
(***************************************************************************)
(* State-machine model of the concurrent execution core of the Whisper     *)
(* speech-to-text service: the task store (DatabaseManager), the model     *)
(* pool (AsyncModelPool) and the task processor (TaskProcessor) with its   *)
(* fetch / process / update workers and the per-task pipeline.             *)
(***************************************************************************)
EXTENDS Integers, Sequences, FiniteSets, TLC

(* ------------------------------ bounds --------------------------------- *)
\* number of task ids the ingress may create
MaxTasks == 2
\* largest normalised max_size of the pool that Init draws
MaxPool == 2
\* largest configured MAX_CONCURRENT_TASKS that Init draws (from 0)
MaxCfg == 2
\* number of distinct model-handle identities
MaxHandles == 3

Tasks == 1..MaxTasks
Procs == {1, 2}
Clients == Procs \X Tasks
Handles == 1..MaxHandles

NoOne == <<0, 0>>
Resizer == <<0, 1>>
NoHandle == 0
Null == "NULL"
\* None where the other values are records
None == [none |-> TRUE]

Max(a, b) == IF a >= b THEN a ELSE b
Min(a, b) == IF a <= b THEN a ELSE b
Range(s) == {s[i] : i \in 1..Len(s)}

(* ------------------------------ store ---------------------------------- *)
\* TaskPriority enum values
TaskPriority == {"low", "normal", "high"}

\* an ORDER BY that ranks every priority alike
PriorityRank_Flat(pr) == 2

\* the CASE expression of the ORDER BY clause of get_queued_tasks
PriorityRank(pr) ==
  CASE pr = "high" -> 1
    [] pr = "normal" -> 2
    [] pr = "low" -> 3

\* exceptions are records; str(e) is the message the exception carries
Str(e) == e.msg

\* ValueError raised by FileUtils.download_file_from_url
DownloadError == [type |-> "ValueError", msg |-> "File size exceeds the limit"]
\* the exception the engine raises inside transcribe
EngineError == [type |-> "RuntimeError", msg |-> "boom"]
\* what get_model's outer `except Exception` re-raises
UnexpectedError == [type |-> "RuntimeError", msg |-> "Unexpected error occurred while retrieving a model instance."]
\* no exception
NoError == [type |-> "none", msg |-> Null]


VARIABLES
  \* --- Task Store (table `tasks`)
  rows,            \* ids of the rows present in the table
  nextId,          \* next autoincrement id
  store,           \* per id: the mutable columns status, result, error_message
  attrs,           \* per id: the columns fixed at creation (priority)
  \* --- AsyncModelPool
  pool,            \* self.pool: FIFO queue of free handles
  maxsize,         \* self.pool.maxsize, fixed when the Queue is built
  current_size,    \* self.current_size
  max_size,        \* self.max_size
  min_size,        \* self.min_size
  size_lock,       \* holder of self.size_lock
  resize_lock,     \* holder of self.resize_lock
  \* --- TaskProcessor (one entry per processor instance)
  max_concurrent_tasks,
  fetch_queue,           \* number of "fetch" signals waiting
  fetchPc,               \* position of fetch_task_worker
  fetchBatch,            \* `tasks` of fetch_task_worker
  fetchTodo,             \* tasks of the batch not yet updated to PROCESSING
  task_processing_queue, \* batches handed to process_tasks_worker
  workerPc,              \* position of process_tasks_worker
  batch,                 \* `tasks` of _process_multiple_tasks
  update_queue,          \* (task_id, update_data) items
  \* --- per-task pipeline / pool caller
  pipe,            \* position of _process_task_sync (or of a pool caller)
  held,            \* the model handle the caller holds
  \* --- history
  claimed,         \* per task: how many times a claim cycle returned it
  enq,             \* per pipeline run: the updates it enqueued
  inflight,        \* task ids in the order they were put in flight
  backlog,         \* the QUEUED rows the first non-empty claim query saw
  \* --- initialize_pool and resize_pool as coroutines of their own
  initPc,          \* position of initialize_pool
  initLeft,        \* instances initialize_pool has still to create
  resizePc,        \* position of resize_pool
  resizeLeft,      \* instances resize_pool has still to create
  \* --- TaskProcessor.stop / run_loop
  shutdown_event,  \* self.shutdown_event.is_set()
  stopPc,          \* position of stop()
  loopPc,          \* position of run_loop()
  updPc,           \* position of update_task_worker
  skipped,         \* history: ids whose update found no row
  \* --- cleanup_worker
  cleanup_queue,   \* tasks waiting for cleanup
  cleanPc,         \* position of cleanup_worker
  \* --- callback_worker and CallbackService.task_callback_notification
  callback_queue,  \* tasks waiting for their callback
  cbPc,            \* position of callback_worker
  cbTask,          \* `task` of callback_worker
  cbTry,           \* attempt number of the @retry wrapper
  cbPost,          \* `attempt` of the loop in fetch_data
  cbSnap,          \* `task_data`: what get_task returned
  cbResp,          \* `response`: what fetch_data returned
  \* --- history of the callbacks
  posts,           \* per task: POST requests sent
  sent,            \* per task: the dictionary of the last POST
  handled,         \* tasks the callback worker has finished with
  \* --- the HTTP API
  response,        \* what the last call of the task-result endpoint answered
  \* --- FileUtils and the temp directory
  limit_file_size, \* FileUtils.LIMIT_FILE_SIZE
  probed,          \* per pipeline: the Content-Range the ranged probe revealed
  fetched,         \* pipelines whose full download was started
  temp,            \* tasks with a file in the temp directory
  file_path,       \* tasks whose task object carries a file_path
  \* --- DatabaseManager: connection handling and the last mutation
  is_connected,    \* self._is_connected
  dbFault,         \* how the Store fails while the current operation runs
  dbOp,            \* the operation being executed, "none" when there is none
  dbPc,            \* position inside the innermost call of the operation
  dbDepth,         \* calls of the operation nested inside the first one
  retry_count,     \* `retry_count` of the running _connect
  attempts,        \* history: connection attempts since the operation began
  dbResult,        \* how the last operation ended
  mutation,        \* history: the last mutation and whether it failed
  \* --- device allocation of the pool
  allocation       \* the last call of allocate_device: settings, index, answer

storeVars == <<rows, nextId, store, attrs>>
poolVars == <<pool, maxsize, current_size, max_size, min_size, size_lock, resize_lock>>
fetchVars == <<fetch_queue, fetchPc, fetchBatch, fetchTodo, task_processing_queue>>
procVars == <<max_concurrent_tasks, workerPc, batch, update_queue>>
pipeVars == <<pipe, held>>
histVars == <<claimed, enq, inflight>>
adminVars == <<initPc, initLeft, resizePc, resizeLeft>>
stopVars == <<shutdown_event, stopPc, loopPc>>
updVars == <<updPc, skipped>>
cleanVars == <<cleanup_queue, cleanPc>>
cbWorkVars == <<cbPc, cbTask, cbTry, cbPost, cbSnap, cbResp, posts, sent, handled>>
cbVars == <<callback_queue, cbWorkVars>>
apiVars == <<response>>
fileVars == <<limit_file_size, probed, fetched, temp, file_path>>
dbVars == <<is_connected, dbFault, dbOp, dbPc, dbDepth, retry_count, attempts, dbResult,
            mutation>>
devVars == <<allocation>>
extraVars == <<apiVars, fileVars, dbVars, devVars>>
sideVars == <<stopVars, updVars, cleanVars, cbVars, extraVars>>
vars == <<storeVars, poolVars, fetchVars, procVars, pipeVars, histVars, backlog, adminVars,
          sideVars>>

BlankRow ==
  [status |-> Null, result |-> Null, error_message |-> Null,
   callback_status_code |-> Null, callback_message |-> None, callback_time |-> Null]
BlankAttrs == [priority |-> Null, callback_url |-> Null]

(* --------------------- DatabaseManager operations ---------------------- *)
\* Task(...) + session.add + commit: status defaults to QUEUED
NewRow ==
  [status |-> "queued", result |-> Null, error_message |-> Null,
   callback_status_code |-> Null, callback_message |-> None, callback_time |-> Null]

\* an update that writes the columns whether or not the row exists
UpdateTask_Upsert(st, present, id, data) == [st EXCEPT ![id] = data @@ @]

\* update_task: setattr for each given key when the row exists, else nothing
UpdateTask(st, present, id, data) ==
  IF id \in present THEN [st EXCEPT ![id] = data @@ @] ELSE st

\* rows that satisfy WHERE status = QUEUED
Queued == {t \in rows : store[t].status = "queued"}

\* the query without its LIMIT clause
Limit_None(n, avail) == avail

\* the row count LIMIT leaves
Limit(n, avail) == Min(n, avail)

\* get_queued_tasks: ORDER BY the priority CASE only, LIMIT n; rows of equal
\* rank come back in an order the query does not fix
QueuedResults(n) ==
  {s \in UNION {[1..k -> Queued] : k \in {Limit(n, Cardinality(Queued))}} :
     /\ \A i, j \in DOMAIN s : i < j => s[i] # s[j]
     /\ \A i, j \in DOMAIN s : i < j =>
          PriorityRank(attrs[s[i]].priority) <= PriorityRank(attrs[s[j]].priority)
     /\ \A t \in Queued \ Range(s) : \A i \in DOMAIN s :
          PriorityRank(attrs[s[i]].priority) <= PriorityRank(attrs[t].priority)}

(* --------------------------- AsyncModelPool ---------------------------- *)
LiveHandles == (Range(pool) \cup {held[c] : c \in Clients}) \ {NoHandle}
FreeIds == Handles \ LiveHandles
NewHandle == CHOOSE h \in FreeIds : \A g \in FreeIds : h <= g

\* pool.full()
PoolFull == Len(pool) >= maxsize

\* _create_and_put_model, success: the size it leaves
CreatedSize(cs) == cs + 1

\* get_model, timeout branch: `self.current_size += 1` after the creation
AfterCreateSize(cs) == cs + 1

\* _destroy_model: the size it leaves
DestroyedSize(cs) == Max(0, cs - 1)

\* a return that puts the handle on the queue twice
ReturnedPool_Twice(h) == Append(Append(pool, h), h)

\* return_model: the queue and the size it leaves
ReturnedPool(h) == IF PoolFull THEN pool ELSE Append(pool, h)
ReturnedSize == IF PoolFull THEN DestroyedSize(current_size) ELSE current_size

\* initialize_pool: number of instances it sets out to create
InstancesToCreate(cs, mn, mx, withMax) ==
  IF cs >= mn THEN 0 ELSE IF withMax THEN mx ELSE mn

\* WhisperService.get_optimal_max_concurrent_tasks
OptimalMaxConcurrent(cfg, poolSize) ==
  LET c == IF cfg < 1 THEN 1 ELSE cfg
  IN IF c > poolSize THEN poolSize ELSE c

(* ------------------------------- Init ---------------------------------- *)
InitStore ==
  /\ rows = {}
  /\ nextId = 1
  /\ store = [t \in Tasks |-> BlankRow]
  /\ attrs = [t \in Tasks |-> BlankAttrs]

InitQueues ==
  /\ fetch_queue = [p \in Procs |-> 0]
  /\ fetchPc = [p \in Procs |-> "get"]
  /\ fetchBatch = [p \in Procs |-> <<>>]
  /\ fetchTodo = [p \in Procs |-> <<>>]
  /\ task_processing_queue = [p \in Procs |-> <<>>]
  /\ workerPc = [p \in Procs |-> "loop"]
  /\ batch = [p \in Procs |-> <<>>]
  /\ update_queue = [p \in Procs |-> <<>>]
  /\ held = [c \in Clients |-> NoHandle]
  /\ claimed = [t \in Tasks |-> 0]
  /\ enq = [c \in Clients |-> <<>>]
  /\ inflight = <<>>
  /\ backlog = {}
  /\ shutdown_event = [p \in Procs |-> FALSE]
  /\ stopPc = [p \in Procs |-> "idle"]
  /\ loopPc = [p \in Procs |-> "forever"]
  /\ updPc = [p \in Procs |-> "get"]
  /\ skipped = {}
  /\ cleanup_queue = [p \in Procs |-> <<>>]
  /\ cleanPc = [p \in Procs |-> "get"]
  /\ callback_queue = [p \in Procs |-> <<>>]
  /\ cbPc = [p \in Procs |-> "get"]
  /\ cbTask = [p \in Procs |-> 0]
  /\ cbTry = [p \in Procs |-> 0]
  /\ cbPost = [p \in Procs |-> 0]
  /\ cbSnap = [p \in Procs |-> None]
  /\ cbResp = [p \in Procs |-> None]
  /\ posts = [t \in Tasks |-> 0]
  /\ sent = [t \in Tasks |-> None]
  /\ handled = {}
  /\ response = None
  /\ probed = [c \in Clients |-> None]
  /\ fetched = {}
  /\ temp = {}
  /\ file_path = {}
  /\ is_connected = FALSE
  /\ dbFault = "none"
  /\ dbOp = "none"
  /\ dbPc = "idle"
  /\ dbDepth = 0
  /\ retry_count = 0
  /\ attempts = 0
  /\ dbResult = "none"
  /\ mutation = None
  /\ allocation = None

InitIdle ==
  /\ InitQueues
  /\ limit_file_size = TRUE
  /\ pipe = [c \in Clients |-> "idle"]

\* the pool after AsyncModelPool(...) and initialize_pool() in lifespan
InitPool(mn, mx, withMax) ==
  /\ max_size = mx
  /\ min_size = mn
  /\ maxsize = mx
  /\ pool = [i \in 1..InstancesToCreate(0, mn, mx, withMax) |-> i]
  /\ current_size = InstancesToCreate(0, mn, mx, withMax)
  /\ size_lock = NoOne
  /\ resize_lock = NoOne
  /\ initPc = "done"
  /\ initLeft = 0
  /\ resizePc = "idle"
  /\ resizeLeft = 0

Init ==
  /\ InitStore
  /\ InitIdle
  /\ \E mx \in 1..MaxPool : \E mn \in 0..mx : \E withMax \in BOOLEAN :
       /\ InitPool(mn, mx, withMax)
       /\ \E cfg \in 0..MaxCfg :
            max_concurrent_tasks = OptimalMaxConcurrent(cfg, mx)

(* ------------------------------ ingress -------------------------------- *)
\* WhisperService.create_whisper_task
CreateTask(pr, url) ==
  /\ nextId <= MaxTasks
  /\ rows' = rows \cup {nextId}
  /\ store' = [store EXCEPT ![nextId] = NewRow]
  /\ attrs' = [attrs EXCEPT ![nextId] = [priority |-> pr, callback_url |-> url]]
  /\ nextId' = nextId + 1
  /\ UNCHANGED <<adminVars, backlog, sideVars>>
  /\ UNCHANGED <<poolVars, fetchVars, procVars, pipeVars, histVars>>

\* `while not self.shutdown_event.is_set()`: where a worker that has finished
\* an iteration goes next
LoopHead(p, pc) == IF shutdown_event[p] THEN "exit" ELSE pc

\* delete_task: the row is removed when it exists
DeleteTask(t) ==
  /\ t \in rows
  /\ rows' = rows \ {t}
  /\ store' = [store EXCEPT ![t] = BlankRow]
  /\ UNCHANGED <<nextId, attrs, poolVars, fetchVars, procVars, pipeVars, histVars, backlog,
                 adminVars, sideVars>>

(* ------------------------- fetch_task_worker --------------------------- *)
\* await self.task_processing_queue.put(tasks), with the claim recorded
PutBatch(p, tasks) ==
  /\ task_processing_queue' = [task_processing_queue EXCEPT ![p] = Append(@, tasks)]
  /\ claimed' = [t \in Tasks |-> IF t \in Range(tasks) THEN claimed[t] + 1 ELSE claimed[t]]
  /\ fetchBatch' = [fetchBatch EXCEPT ![p] = <<>>]
  /\ fetchTodo' = [fetchTodo EXCEPT ![p] = <<>>]
  /\ fetchPc' = [fetchPc EXCEPT ![p] = LoopHead(p, "get")]

\* await fetch_queue.get(); tasks = await get_queued_tasks(max_concurrent_tasks);
\* an empty result goes straight to the processing queue
FetchSelect(p) ==
  /\ fetchPc[p] = "get"
  /\ fetch_queue[p] > 0
  /\ fetch_queue' = [fetch_queue EXCEPT ![p] = @ - 1]
  /\ backlog' = IF backlog = {} THEN Queued ELSE backlog
  /\ \E s \in QueuedResults(max_concurrent_tasks) :
       IF s = <<>>
         THEN PutBatch(p, s)
         ELSE /\ fetchBatch' = [fetchBatch EXCEPT ![p] = s]
              /\ fetchTodo' = [fetchTodo EXCEPT ![p] = s]
              /\ fetchPc' = [fetchPc EXCEPT ![p] = "update"]
              /\ UNCHANGED <<task_processing_queue, claimed>>
  /\ UNCHANGED <<adminVars, sideVars>>
  /\ UNCHANGED <<storeVars, poolVars, procVars, pipeVars, enq, inflight>>

\* for task in tasks: await update_task(task.id, status=PROCESSING); after the
\* last one the batch is put on task_processing_queue
FetchUpdate(p) ==
  /\ fetchPc[p] = "update"
  /\ fetchTodo[p] # <<>>
  /\ store' = UpdateTask(store, rows, Head(fetchTodo[p]), [status |-> "processing"])
  /\ IF Tail(fetchTodo[p]) = <<>>
       THEN PutBatch(p, fetchBatch[p])
       ELSE /\ fetchTodo' = [fetchTodo EXCEPT ![p] = Tail(@)]
            /\ UNCHANGED <<fetchPc, fetchBatch, task_processing_queue, claimed>>
  /\ UNCHANGED <<adminVars, backlog, sideVars>>
  /\ UNCHANGED <<rows, nextId, attrs, poolVars, fetch_queue, procVars, pipeVars, enq, inflight>>

(* ------------------------ process_tasks_worker ------------------------- *)
\* a worker that asks for the next batch while the last one is still running
AtLoopHead_OrGathering(p) == workerPc[p] \in {"loop", "gather"}

\* the worker is at `while not self.shutdown_event.is_set()`: the batch of the
\* last iteration, if any, has been gathered
AtLoopHead(p) == workerPc[p] = "loop"

\* await fetch_queue.put("fetch"): the head of the worker's loop
WorkerPutFetch(p) ==
  /\ AtLoopHead(p)
  /\ ~shutdown_event[p]
  /\ fetch_queue' = [fetch_queue EXCEPT ![p] = @ + 1]
  /\ workerPc' = [workerPc EXCEPT ![p] = "await"]
  /\ UNCHANGED <<adminVars, backlog, sideVars>>
  /\ UNCHANGED <<storeVars, poolVars, fetchPc, fetchBatch, fetchTodo, task_processing_queue,
                 max_concurrent_tasks, batch, update_queue, pipeVars, histVars>>

\* tasks = await task_processing_queue.get(), empty: sleep, then loop
WorkerSleep(p) ==
  /\ workerPc[p] = "await"
  /\ task_processing_queue[p] # <<>>
  /\ Head(task_processing_queue[p]) = <<>>
  /\ task_processing_queue' = [task_processing_queue EXCEPT ![p] = Tail(@)]
  /\ workerPc' = [workerPc EXCEPT ![p] = "loop"]
  /\ UNCHANGED <<adminVars, backlog, sideVars>>
  /\ UNCHANGED <<storeVars, poolVars, fetch_queue, fetchPc, fetchBatch, fetchTodo,
                 max_concurrent_tasks, batch, update_queue, pipeVars, histVars>>

\* tasks = await task_processing_queue.get(), non-empty: _process_multiple_tasks
\* submits _process_task_sync for each task to the executor
WorkerGetBatch(p) ==
  /\ workerPc[p] = "await"
  /\ task_processing_queue[p] # <<>>
  /\ Head(task_processing_queue[p]) # <<>>
  /\ LET tasks == Head(task_processing_queue[p]) IN
       /\ task_processing_queue' = [task_processing_queue EXCEPT ![p] = Tail(@)]
       /\ workerPc' = [workerPc EXCEPT ![p] = "gather"]
       /\ batch' = [batch EXCEPT ![p] = tasks]
       /\ pipe' = [c \in Clients |->
                     IF c[1] = p /\ c[2] \in Range(tasks) THEN "start" ELSE pipe[c]]
       /\ enq' = [c \in Clients |->
                     IF c[1] = p /\ c[2] \in Range(tasks) THEN <<>> ELSE enq[c]]
       /\ inflight' = inflight \o tasks
  /\ UNCHANGED <<adminVars, backlog, sideVars>>
  /\ UNCHANGED <<storeVars, poolVars, fetch_queue, fetchPc, fetchBatch, fetchTodo,
                 max_concurrent_tasks, update_queue, held, claimed>>

\* a loop that queues work items only for the tasks whose pipeline succeeded
WorkItems_Succeeded(p) ==
  SelectSeq(batch[p], LAMBDA t : enq[<<p, t>>][Len(enq[<<p, t>>])].data.status = "completed")

\* `for task, result in zip(tasks, results)`: one work item per task of the
\* batch, whatever its result
WorkItems(p) == batch[p]

\* results = await asyncio.gather(*futures): every pipeline of the batch has
\* returned; each task is put on cleanup_queue and on callback_queue, and the
\* worker goes back to the head of its loop
GatherDone(p) ==
  /\ workerPc[p] = "gather"
  /\ \A t \in Range(batch[p]) : pipe[<<p, t>>] = "done"
  /\ pipe' = [c \in Clients |->
                IF c[1] = p /\ c[2] \in Range(batch[p]) THEN "idle" ELSE pipe[c]]
  /\ cleanup_queue' = [cleanup_queue EXCEPT ![p] = @ \o WorkItems(p)]
  /\ callback_queue' = [callback_queue EXCEPT ![p] = @ \o WorkItems(p)]
  /\ batch' = [batch EXCEPT ![p] = <<>>]
  /\ workerPc' = [workerPc EXCEPT ![p] = "loop"]
  /\ UNCHANGED <<adminVars, extraVars, backlog, stopVars, updVars, cleanPc, cbWorkVars>>
  /\ UNCHANGED <<storeVars, poolVars, fetchVars, max_concurrent_tasks, update_queue,
                 held, histVars>>

(* -------------------------- update_task_worker ------------------------- *)
\* a queue that hands out the item put last
QueueGet_Last(q) == q[Len(q)]

\* asyncio.Queue.get(): the item that was put first
QueueGet(q) == Head(q)

\* task_id, update_data = await update_queue.get(); await update_task(...)
ApplyUpdate(p) ==
  /\ updPc[p] = "get"
  /\ update_queue[p] # <<>>
  /\ LET u == QueueGet(update_queue[p]) IN
       /\ store' = UpdateTask(store, rows, u.id, u.data)
       /\ skipped' = IF u.id \in rows THEN skipped ELSE skipped \cup {u.id}
  /\ update_queue' = [update_queue EXCEPT ![p] = Tail(@)]
  /\ updPc' = [updPc EXCEPT ![p] = LoopHead(p, "get")]
  /\ UNCHANGED <<adminVars, extraVars, backlog, stopVars, cleanVars, cbVars>>
  /\ UNCHANGED <<rows, nextId, attrs, poolVars, fetchVars, max_concurrent_tasks,
                 workerPc, batch, pipeVars, histVars>>

(* ------------------- _process_task_sync (per task) --------------------- *)
\* a success update that leaves `result` out
CompletedUpdate_NoResult == [status |-> "completed"]

\* task_update of the success path (the columns the claims read)
CompletedUpdate == [status |-> "completed", result |-> "R"]

\* a handler that re-queues the task instead of failing it
FailedUpdate_Requeue(e) == [status |-> "queued", error_message |-> Str(e)]

\* task_update of the `except Exception as e` handler
FailedUpdate(e) == [status |-> "failed", error_message |-> Str(e)]

\* self.update_queue.put_nowait((task.id, task_update))
Enqueued(q, t, data) == Append(q, [id |-> t, data |-> data])

\* a pipeline that lets the exception propagate: no update is enqueued
PipelineExcept_Propagate(c, e) ==
  /\ pipe' = [pipe EXCEPT ![c] = "done"]
  /\ UNCHANGED <<adminVars, backlog, sideVars>>
  /\ UNCHANGED <<update_queue, enq>>

\* the handler `except Exception as e`: one FAILED update, then return
PipelineExcept(c, e) ==
  /\ update_queue' = [update_queue EXCEPT ![c[1]] = Enqueued(@, c[2], FailedUpdate(e))]
  /\ enq' = [enq EXCEPT ![c] = Append(@, [exc |-> e, data |-> FailedUpdate(e)])]
  /\ pipe' = [pipe EXCEPT ![c] = "done"]

\* the task has a file_path, or its file_url downloads and probes well:
\* the pipeline reaches `asyncio.run(self.model_pool.get_model())`
Begin(c) ==
  /\ pipe[c] = "start"
  /\ pipe' = [pipe EXCEPT ![c] = "wait"]
  /\ UNCHANGED <<adminVars, backlog, sideVars>>
  /\ UNCHANGED <<storeVars, poolVars, fetchVars, procVars, held, histVars>>

\* the task has only a file_url and the download (or the check after it) raises
DownloadRaise(c, e) ==
  /\ pipe[c] = "start"
  /\ PipelineExcept(c, e)
  /\ UNCHANGED <<adminVars, backlog, sideVars>>
  /\ UNCHANGED <<storeVars, poolVars, fetchVars, max_concurrent_tasks, workerPc, batch,
                 held, claimed, inflight>>

(* ---- get_model(timeout=5.0, strategy="existing") as the pipeline calls it *)
\* wait_for(self.pool.get(), timeout): a free handle is there or arrives in time
GetExisting(c) ==
  /\ pipe[c] = "wait"
  /\ pool # <<>>
  /\ held' = [held EXCEPT ![c] = Head(pool)]
  /\ pool' = Tail(pool)
  /\ pipe' = [pipe EXCEPT ![c] = "transcribe"]
  /\ UNCHANGED <<adminVars, backlog, sideVars>>
  /\ UNCHANGED <<storeVars, maxsize, current_size, max_size, min_size, size_lock,
                 resize_lock, fetchVars, procVars, histVars>>

\* asyncio.TimeoutError: no handle became free within the timeout
GetTimeout(c) ==
  /\ pipe[c] = "wait"
  /\ pool = <<>>
  /\ pipe' = [pipe EXCEPT ![c] = "timedout"]
  /\ UNCHANGED <<adminVars, backlog, sideVars>>
  /\ UNCHANGED <<storeVars, poolVars, fetchVars, procVars, held, histVars>>

\* async with self.resize_lock, current_size < max_size: go on to create
TimeoutLock(c) ==
  /\ pipe[c] = "timedout"
  /\ resize_lock = NoOne
  /\ current_size < max_size
  /\ resize_lock' = c
  /\ pipe' = [pipe EXCEPT ![c] = "locked"]
  /\ UNCHANGED <<adminVars, backlog, sideVars>>
  /\ UNCHANGED <<storeVars, pool, maxsize, current_size, max_size, min_size, size_lock,
                 fetchVars, procVars, held, histVars>>

\* async with self.resize_lock, current_size >= max_size: "Model pool exhausted"
\* is raised, the outer `except Exception` re-raises it as UnexpectedError, and
\* the pipeline's handler turns that into a FAILED update
TimeoutExhausted(c) ==
  /\ pipe[c] = "timedout"
  /\ resize_lock = NoOne
  /\ ~(current_size < max_size)
  /\ PipelineExcept(c, UnexpectedError)
  /\ UNCHANGED <<adminVars, backlog, sideVars>>
  /\ UNCHANGED <<storeVars, poolVars, fetchVars, max_concurrent_tasks, workerPc, batch,
                 held, claimed, inflight>>

\* _create_and_put_model succeeds (pool.put, current_size += 1 under size_lock),
\* then get_model adds 1 to current_size again
CreateOk(c) ==
  /\ pipe[c] = "locked"
  /\ ~PoolFull
  /\ size_lock = NoOne
  /\ FreeIds # {}
  /\ pool' = Append(pool, NewHandle)
  /\ current_size' = AfterCreateSize(CreatedSize(current_size))
  /\ pipe' = [pipe EXCEPT ![c] = "created"]
  /\ UNCHANGED <<adminVars, backlog, sideVars>>
  /\ UNCHANGED <<storeVars, maxsize, max_size, min_size, size_lock, resize_lock,
                 fetchVars, procVars, held, histVars>>

\* model = await self.pool.get(): no timeout, resize_lock still held
GetCreated(c) ==
  /\ pipe[c] = "created"
  /\ pool # <<>>
  /\ held' = [held EXCEPT ![c] = Head(pool)]
  /\ pool' = Tail(pool)
  /\ resize_lock' = NoOne
  /\ pipe' = [pipe EXCEPT ![c] = "transcribe"]
  /\ UNCHANGED <<adminVars, backlog, sideVars>>
  /\ UNCHANGED <<storeVars, maxsize, current_size, max_size, min_size, size_lock,
                 fetchVars, procVars, histVars>>

\* finally: asyncio.run(self.model_pool.return_model(model))
ReturnModel(c) ==
  /\ pool' = ReturnedPool(held[c])
  /\ current_size' = ReturnedSize
  /\ held' = [held EXCEPT ![c] = NoHandle]

\* the engine returns: COMPLETED update enqueued, handle returned
TranscribeOk(c) ==
  /\ pipe[c] = "transcribe"
  /\ PoolFull => size_lock = NoOne
  /\ update_queue' = [update_queue EXCEPT ![c[1]] = Enqueued(@, c[2], CompletedUpdate)]
  /\ enq' = [enq EXCEPT ![c] = Append(@, [exc |-> NoError, data |-> CompletedUpdate])]
  /\ ReturnModel(c)
  /\ pipe' = [pipe EXCEPT ![c] = "done"]
  /\ UNCHANGED <<adminVars, backlog, sideVars>>
  /\ UNCHANGED <<storeVars, maxsize, max_size, min_size, size_lock, resize_lock,
                 fetchVars, max_concurrent_tasks, workerPc, batch, claimed, inflight>>

\* the engine raises: handle returned by `finally`, then the handler runs
TranscribeRaise(c, e) ==
  /\ pipe[c] = "transcribe"
  /\ PoolFull => size_lock = NoOne
  /\ ReturnModel(c)
  /\ PipelineExcept(c, e)
  /\ UNCHANGED <<adminVars, backlog, sideVars>>
  /\ UNCHANGED <<storeVars, maxsize, max_size, min_size, size_lock, resize_lock,
                 fetchVars, max_concurrent_tasks, workerPc, batch, claimed, inflight>>

(* ------------- the pool's operations called directly ------------------ *)
\* everything outside the pool and its callers
OutsidePool == <<storeVars, fetchVars, procVars, histVars, backlog, sideVars>>

\* a caller enters get_model(strategy="existing")
CallGetModel(c) ==
  /\ pipe[c] = "idle"
  /\ held[c] = NoHandle
  /\ pipe' = [pipe EXCEPT ![c] = "wait"]
  /\ UNCHANGED <<OutsidePool, poolVars, held, adminVars>>

\* get_model raises to its caller: pool at max_size after the timeout
RaiseExhausted(c) ==
  /\ pipe[c] = "timedout"
  /\ resize_lock = NoOne
  /\ ~(current_size < max_size)
  /\ pipe' = [pipe EXCEPT ![c] = "idle"]
  /\ UNCHANGED <<OutsidePool, poolVars, held, adminVars>>

\* _create_and_put_model swallows a load error (nothing put, nothing counted),
\* then get_model adds 1 to current_size all the same
CreateFail(c) ==
  /\ pipe[c] = "locked"
  /\ current_size' = AfterCreateSize(current_size)
  /\ pipe' = [pipe EXCEPT ![c] = "created"]
  /\ UNCHANGED <<OutsidePool, pool, maxsize, max_size, min_size, size_lock, resize_lock,
                 held, adminVars>>

\* a caller hands its handle back: return_model(model)
CallReturnModel(c) ==
  /\ pipe[c] = "transcribe"
  /\ PoolFull => size_lock = NoOne
  /\ ReturnModel(c)
  /\ pipe' = [pipe EXCEPT ![c] = "idle"]
  /\ UNCHANGED <<OutsidePool, maxsize, max_size, min_size, size_lock, resize_lock, adminVars>>

\* a caller enters get_model(strategy="dynamic"): the unlocked test of
\* current_size < max_size picks the branch
CallGetDynamic(c) ==
  /\ pipe[c] = "idle"
  /\ held[c] = NoHandle
  /\ pipe' = [pipe EXCEPT ![c] = IF current_size < max_size THEN "dynamic" ELSE "dwait"]
  /\ UNCHANGED <<OutsidePool, poolVars, held, adminVars>>

\* dynamic branch: resize_lock and size_lock taken, and with room left
\* _create_and_put_model is awaited under them: it puts the handle and then
\* waits for size_lock, which its own caller holds
DynamicLock(c) ==
  /\ pipe[c] = "dynamic"
  /\ resize_lock = NoOne
  /\ size_lock = NoOne
  /\ IF current_size < max_size
       THEN /\ resize_lock' = c
            /\ size_lock' = c
            /\ pool' = IF ~PoolFull /\ FreeIds # {} THEN Append(pool, NewHandle) ELSE pool
            /\ pipe' = [pipe EXCEPT ![c] = "stuck"]
       ELSE /\ pipe' = [pipe EXCEPT ![c] = "dwait"]
            /\ UNCHANGED <<resize_lock, size_lock, pool>>
  /\ UNCHANGED <<OutsidePool, maxsize, current_size, max_size, min_size, held, adminVars>>

\* wait_for(self.pool.get(), timeout) of the dynamic and default branches
DynamicGet(c) ==
  /\ pipe[c] = "dwait"
  /\ pool # <<>>
  /\ held' = [held EXCEPT ![c] = Head(pool)]
  /\ pool' = Tail(pool)
  /\ pipe' = [pipe EXCEPT ![c] = "transcribe"]
  /\ UNCHANGED <<OutsidePool, maxsize, current_size, max_size, min_size, size_lock,
                 resize_lock, adminVars>>

\* the same wait times out: RuntimeError to the caller
DynamicTimeout(c) ==
  /\ pipe[c] = "dwait"
  /\ pool = <<>>
  /\ pipe' = [pipe EXCEPT ![c] = "idle"]
  /\ UNCHANGED <<OutsidePool, poolVars, held, adminVars>>

(* ----------------------- AsyncModelPool.__init__ ----------------------- *)
\* torch.cuda.device_count() and torch.get_num_threads() of the host
GpuCounts == 0..2
CpuThreads == {4, 8}

\* Settings.AsyncModelPoolSettings.max_instances_per_gpu
max_instances_per_gpu == 1

\* get_optimal_max_size raises: the multi-GPU branch reads
\* self.max_instances_per_gpu, which __init__ assigns only afterwards
OptimalMaxSizeRaises(num_gpus) == num_gpus >= 2

\* get_optimal_max_size on a host without GPU or with one GPU
OptimalMaxSize(max_size_arg, num_gpus, num_cpu_threads) ==
  LET m == IF max_size_arg < 1 THEN 1 ELSE max_size_arg
  IN IF num_gpus = 0
       THEN IF num_cpu_threads <= 4 THEN 1 ELSE Min(m, num_cpu_threads \div 2)
       ELSE 1

\* `if min_size > max_size: raise ValueError`, tested on the arguments
ConstructorRejects(min_size_arg, max_size_arg) == min_size_arg > max_size_arg

\* AsyncModelPool(min_size=..., max_size=...) on a host with the given devices;
\* only an instance that was built can be called
Construct(min_size_arg, max_size_arg, num_gpus, num_cpu_threads) ==
  /\ initPc = "unbuilt"
  /\ IF ConstructorRejects(min_size_arg, max_size_arg)
       THEN /\ initPc' = "ValueError"
            /\ UNCHANGED <<min_size, max_size, maxsize, pipe, resizePc>>
       ELSE IF OptimalMaxSizeRaises(num_gpus)
         THEN /\ initPc' = "AttributeError"
              /\ min_size' = min_size_arg
              /\ UNCHANGED <<max_size, maxsize, pipe, resizePc>>
         ELSE /\ initPc' = "new"
              /\ min_size' = min_size_arg
              /\ max_size' = OptimalMaxSize(max_size_arg, num_gpus, num_cpu_threads)
              /\ maxsize' = OptimalMaxSize(max_size_arg, num_gpus, num_cpu_threads)
              /\ pipe' = [c \in Clients |-> "idle"]
              /\ resizePc' = "idle"
  /\ UNCHANGED <<OutsidePool, pool, current_size, size_lock, resize_lock, held,
                 initLeft, resizeLeft>>

(* --------------------------- initialize_pool --------------------------- *)
\* instances_to_create is fixed, then `if current_size >= min_size: return`
InitializeStart(withMax) ==
  /\ initPc \in {"new", "done"}
  /\ initLeft' = InstancesToCreate(current_size, min_size, max_size, withMax)
  /\ initPc' = IF current_size >= min_size THEN "done" ELSE "creating"
  /\ UNCHANGED <<OutsidePool, poolVars, pipeVars, resizePc, resizeLeft>>

\* one batch of the loop: _create_and_put_model puts a handle and counts it
InitializeCreate ==
  /\ initPc = "creating"
  /\ initLeft > 0
  /\ ~PoolFull
  /\ size_lock = NoOne
  /\ FreeIds # {}
  /\ pool' = Append(pool, NewHandle)
  /\ current_size' = CreatedSize(current_size)
  /\ initLeft' = initLeft - 1
  /\ UNCHANGED <<OutsidePool, maxsize, max_size, min_size, size_lock, resize_lock,
                 pipeVars, initPc, resizePc, resizeLeft>>

\* the loop is over
InitializeDone ==
  /\ initPc = "creating"
  /\ initLeft = 0
  /\ initPc' = "done"
  /\ UNCHANGED <<OutsidePool, poolVars, pipeVars, initLeft, resizePc, resizeLeft>>

(* ----------------------------- resize_pool ----------------------------- *)
\* async with self.resize_lock: min_size and max_size are overwritten at once
ResizeStart(new_min_size, new_max_size) ==
  /\ resizePc = "idle"
  /\ ~(new_min_size > new_max_size)
  /\ resize_lock = NoOne
  /\ resize_lock' = Resizer
  /\ min_size' = new_min_size
  /\ max_size' = new_max_size
  /\ resizePc' = "sized"
  /\ UNCHANGED <<OutsidePool, pool, maxsize, current_size, size_lock, pipeVars,
                 initPc, initLeft, resizeLeft>>

\* async with self.size_lock, current_size < min_size: add_count creations are
\* gathered while size_lock stays held
ResizeGrow ==
  /\ resizePc = "sized"
  /\ size_lock = NoOne
  /\ current_size < min_size
  /\ size_lock' = Resizer
  /\ resizeLeft' = min_size - current_size
  /\ resizePc' = "grow"
  /\ UNCHANGED <<OutsidePool, pool, maxsize, current_size, max_size, min_size, resize_lock,
                 pipeVars, initPc, initLeft>>

\* one gathered _create_and_put_model: the handle is put; the count that
\* follows waits for size_lock, which resize_pool holds
ResizeGrowPut ==
  /\ resizePc = "grow"
  /\ resizeLeft > 0
  /\ ~PoolFull
  /\ FreeIds # {}
  /\ pool' = Append(pool, NewHandle)
  /\ resizeLeft' = resizeLeft - 1
  /\ UNCHANGED <<OutsidePool, maxsize, current_size, max_size, min_size, size_lock,
                 resize_lock, pipeVars, initPc, initLeft, resizePc>>

\* async with self.size_lock, current_size > max_size: free handles are taken
\* out for destruction; with none taken the count is cut and the locks are
\* released, otherwise the gathered _destroy_model calls wait for size_lock
ResizeShrink ==
  /\ resizePc = "sized"
  /\ size_lock = NoOne
  /\ ~(current_size < min_size)
  /\ current_size > max_size
  /\ LET remove_count == current_size - max_size
         taken == Min(remove_count, Len(pool))
     IN /\ pool' = SubSeq(pool, taken + 1, Len(pool))
        /\ IF taken = 0
             THEN /\ current_size' = current_size - remove_count
                  /\ resize_lock' = NoOne
                  /\ resizePc' = "idle"
                  /\ UNCHANGED size_lock
             ELSE /\ size_lock' = Resizer
                  /\ resizePc' = "stuck"
                  /\ UNCHANGED <<current_size, resize_lock>>
  /\ UNCHANGED <<OutsidePool, maxsize, max_size, min_size, pipeVars, initPc, initLeft,
                 resizeLeft>>

\* neither branch applies: both locks are released
ResizeKeep ==
  /\ resizePc = "sized"
  /\ size_lock = NoOne
  /\ ~(current_size < min_size)
  /\ ~(current_size > max_size)
  /\ resize_lock' = NoOne
  /\ resizePc' = "idle"
  /\ UNCHANGED <<OutsidePool, pool, maxsize, current_size, max_size, min_size, size_lock,
                 pipeVars, initPc, initLeft, resizeLeft>>

(* --------------------------- callback path ----------------------------- *)
\* AsyncHttpClient(retry_limit=3): the bound of the loop in fetch_data
RetryLimit == 3
\* @retry(stop=stop_after_attempt(3), ...) on task_callback_notification
StopAfterAttempt == 3
\* callback_message[:512]
MessageLimit == 512

\* a response body: its length and whether it is white space only
Text(n, b) == [chars |-> n, blank |-> b]

\* a transport failure: httpx.RequestError instead of a response
RequestError == [raised |-> "httpx.RequestError"]

\* what the callback endpoint may answer to one POST
Answers ==
  {[status_code |-> "200", text |-> Text(MessageLimit + 1, FALSE)],
   [status_code |-> "500", text |-> Text(5, FALSE)],
   [status_code |-> "200", text |-> Text(0, FALSE)],
   [status_code |-> "200", text |-> Text(1, TRUE)],
   RequestError}

\* `not response.text.strip() or not response.content`
NoContent(r) == r.text.chars = 0 \/ r.text.blank

\* `callback_message[:512] if callback_message else None`
Truncated(text) ==
  IF text.chars = 0 THEN None ELSE [text EXCEPT !.chars = Min(@, MessageLimit)]

\* Task.to_dict (the columns the model carries)
ToDict(t, row) ==
  [id |-> t, status |-> row.status, callback_url |-> attrs[t].callback_url,
   callback_status_code |-> row.callback_status_code,
   callback_message |-> row.callback_message,
   callback_time |-> row.callback_time,
   priority |-> attrs[t].priority, error_message |-> row.error_message,
   result |-> row.result]

\* get_task: the row, or None when it does not exist
GetTask(t) == IF t \in rows THEN store[t] ELSE None

\* a variant that also fails the task when the endpoint did not answer 2xx
UpdateTaskCallbackStatus_FailTask(st, present, id, code, message, time) ==
  IF id \in present
    THEN [st EXCEPT ![id] =
            [callback_status_code |-> code, callback_message |-> Truncated(message),
             callback_time |-> time] @@
            (IF code = "200" THEN @ ELSE [status |-> "failed"] @@ @)]
    ELSE st

\* update_task_callback_status: the three callback columns of an existing row
UpdateTaskCallbackStatus(st, present, id, code, message, time) ==
  IF id \in present
    THEN [st EXCEPT ![id] =
            [callback_status_code |-> code, callback_message |-> Truncated(message),
             callback_time |-> time] @@ @]
    ELSE st

\* callback_worker: `finally: task_done()`, then the head of the loop; the
\* locals of the notification are gone
CallbackFinish(p) ==
  /\ handled' = handled \cup {cbTask[p]}
  /\ cbPc' = [cbPc EXCEPT ![p] = LoopHead(p, "get")]
  /\ cbTry' = [cbTry EXCEPT ![p] = 0]
  /\ cbPost' = [cbPost EXCEPT ![p] = 0]
  /\ cbSnap' = [cbSnap EXCEPT ![p] = None]
  /\ cbResp' = [cbResp EXCEPT ![p] = None]

\* an attempt of task_callback_notification raised: the @retry wrapper runs it
\* again, or raises RetryError after the last attempt, which callback_worker logs
AttemptRaised(p) ==
  IF cbTry[p] < StopAfterAttempt
    THEN /\ cbTry' = [cbTry EXCEPT ![p] = @ + 1]
         /\ cbPc' = [cbPc EXCEPT ![p] = "notify"]
         /\ cbPost' = [cbPost EXCEPT ![p] = 0]
         /\ cbSnap' = [cbSnap EXCEPT ![p] = None]
         /\ UNCHANGED <<handled, cbResp>>
    ELSE CallbackFinish(p)

\* callback_task = await self.callback_queue.get(); `if task.callback_url`
CallbackGet(p) ==
  /\ cbPc[p] = "get"
  /\ callback_queue[p] # <<>>
  /\ callback_queue' = [callback_queue EXCEPT ![p] = Tail(@)]
  /\ cbTask' = [cbTask EXCEPT ![p] = Head(callback_queue[p])]
  /\ IF attrs[Head(callback_queue[p])].callback_url # Null
       THEN /\ cbPc' = [cbPc EXCEPT ![p] = "notify"]
            /\ cbTry' = [cbTry EXCEPT ![p] = 1]
            /\ UNCHANGED handled
       ELSE /\ handled' = handled \cup {Head(callback_queue[p])}
            /\ cbPc' = [cbPc EXCEPT ![p] = LoopHead(p, "get")]
            /\ UNCHANGED cbTry
  /\ UNCHANGED <<cbPost, cbSnap, cbResp, posts, sent>>
  /\ UNCHANGED <<storeVars, poolVars, fetchVars, procVars, pipeVars, histVars, backlog,
                 adminVars, extraVars, stopVars, updVars, cleanVars>>

\* task_data = await db_manager.get_task(task.id); `task_data.to_dict()` raises
\* AttributeError when the row is gone
CallbackGetTask(p) ==
  /\ cbPc[p] = "notify"
  /\ IF GetTask(cbTask[p]) = None
       THEN AttemptRaised(p)
       ELSE /\ cbSnap' = [cbSnap EXCEPT ![p] = GetTask(cbTask[p])]
            /\ cbPc' = [cbPc EXCEPT ![p] = "post"]
            /\ UNCHANGED <<cbTry, cbPost, cbResp, handled>>
  /\ UNCHANGED <<callback_queue, cbTask, posts, sent>>
  /\ UNCHANGED <<storeVars, poolVars, fetchVars, procVars, pipeVars, histVars, backlog,
                 adminVars, extraVars, stopVars, updVars, cleanVars>>

\* one pass of the loop in fetch_data: the request is sent with
\* json=task_data.to_dict(); the endpoint answers `a`
CallbackPost(p, a) ==
  /\ cbPc[p] = "post"
  /\ posts' = [posts EXCEPT ![cbTask[p]] = @ + 1]
  /\ sent' = [sent EXCEPT ![cbTask[p]] = ToDict(cbTask[p], cbSnap[p])]
  /\ IF a = RequestError
       THEN AttemptRaised(p)
       ELSE IF NoContent(a)
         THEN IF cbPost[p] = RetryLimit - 1
                THEN AttemptRaised(p)
                ELSE /\ cbPost' = [cbPost EXCEPT ![p] = @ + 1]
                     /\ UNCHANGED <<cbPc, cbTry, cbSnap, cbResp, handled>>
         ELSE /\ cbResp' = [cbResp EXCEPT ![p] = a]
              /\ cbPc' = [cbPc EXCEPT ![p] = "record"]
              /\ UNCHANGED <<cbPost, cbTry, cbSnap, handled>>
  /\ UNCHANGED <<callback_queue, cbTask>>
  /\ UNCHANGED <<storeVars, poolVars, fetchVars, procVars, pipeVars, histVars, backlog,
                 adminVars, extraVars, stopVars, updVars, cleanVars>>

\* await db_manager.update_task_callback_status(task.id, response.status_code,
\* response.text, now); the notification returns
CallbackRecord(p) ==
  /\ cbPc[p] = "record"
  /\ store' = UpdateTaskCallbackStatus(store, rows, cbTask[p], cbResp[p].status_code,
                                       cbResp[p].text, "now")
  /\ CallbackFinish(p)
  /\ UNCHANGED <<callback_queue, cbTask, posts, sent>>
  /\ UNCHANGED <<rows, nextId, attrs, poolVars, fetchVars, procVars, pipeVars, histVars,
                 backlog, adminVars, extraVars, stopVars, updVars, cleanVars>>

(* ------------------- cleanup_worker, stop and run_loop ----------------- *)
\* cleanup_task = await self.cleanup_queue.get(); the temporary file is
\* deleted when the task object carries a file_path; task_done(); then the
\* head of the loop
CleanupGet(p) ==
  /\ cleanPc[p] = "get"
  /\ cleanup_queue[p] # <<>>
  /\ temp' = IF Head(cleanup_queue[p]) \in file_path
               THEN temp \ {Head(cleanup_queue[p])} ELSE temp
  /\ cleanup_queue' = [cleanup_queue EXCEPT ![p] = Tail(@)]
  /\ cleanPc' = [cleanPc EXCEPT ![p] = LoopHead(p, "get")]
  /\ UNCHANGED <<storeVars, poolVars, fetchVars, procVars, pipeVars, histVars, backlog,
                 adminVars, apiVars, dbVars, devVars, limit_file_size, probed, fetched, file_path,
                 stopVars, updVars, cbVars>>

\* process_tasks_worker finds shutdown_event set at the head of its loop
ProcessExit(p) ==
  /\ workerPc[p] = "loop"
  /\ shutdown_event[p]
  /\ workerPc' = [workerPc EXCEPT ![p] = "exit"]
  /\ UNCHANGED <<storeVars, poolVars, fetchVars, max_concurrent_tasks, batch, update_queue,
                 pipeVars, histVars, backlog, adminVars, sideVars>>

\* stop(): shutdown_event.set(); loop.call_soon_threadsafe(loop.stop); the
\* caller then waits in thread.join()
Stop(p) ==
  /\ stopPc[p] = "idle"
  /\ shutdown_event' = [shutdown_event EXCEPT ![p] = TRUE]
  /\ stopPc' = [stopPc EXCEPT ![p] = "joining"]
  /\ UNCHANGED <<storeVars, poolVars, fetchVars, procVars, pipeVars, histVars, backlog,
                 adminVars, extraVars, loopPc, updVars, cleanVars, cbVars>>

\* run_loop: run_forever() returns after loop.stop(); the five worker tasks
\* are still pending, so run_until_complete(gather(*pending)) is entered
LoopStopped(p) ==
  /\ loopPc[p] = "forever"
  /\ stopPc[p] = "joining"
  /\ loopPc' = [loopPc EXCEPT ![p] = "draining"]
  /\ UNCHANGED <<storeVars, poolVars, fetchVars, procVars, pipeVars, histVars, backlog,
                 adminVars, extraVars, shutdown_event, stopPc, updVars, cleanVars, cbVars>>

\* every worker coroutine has returned
WorkersExited(p) ==
  /\ fetchPc[p] = "exit"
  /\ workerPc[p] = "exit"
  /\ updPc[p] = "exit"
  /\ cleanPc[p] = "exit"
  /\ cbPc[p] = "exit"

\* run_loop: gather(*pending) completes once every worker has returned; then
\* loop.close() and the thread ends
LoopClose(p) ==
  /\ loopPc[p] = "draining"
  /\ WorkersExited(p)
  /\ loopPc' = [loopPc EXCEPT ![p] = "closed"]
  /\ UNCHANGED <<storeVars, poolVars, fetchVars, procVars, pipeVars, histVars, backlog,
                 adminVars, extraVars, shutdown_event, stopPc, updVars, cleanVars, cbVars>>

\* stop(): thread.join() returns when run_loop has returned
StopReturn(p) ==
  /\ stopPc[p] = "joining"
  /\ loopPc[p] = "closed"
  /\ stopPc' = [stopPc EXCEPT ![p] = "returned"]
  /\ UNCHANGED <<storeVars, poolVars, fetchVars, procVars, pipeVars, histVars, backlog,
                 adminVars, extraVars, shutdown_event, loopPc, updVars, cleanVars, cbVars>>

(* --------------------------- specifications ---------------------------- *)
Ingress == \E pr \in TaskPriority : CreateTask(pr, Null)

\* the coroutines start() creates on the processor's event loop
FetchWorker(p) == FetchSelect(p) \/ FetchUpdate(p)

ProcessWorker(p) ==
  \/ WorkerPutFetch(p)
  \/ WorkerSleep(p)
  \/ WorkerGetBatch(p)
  \/ GatherDone(p)

UpdateWorker(p) == ApplyUpdate(p)

Processor(p) == FetchWorker(p) \/ ProcessWorker(p) \/ UpdateWorker(p)

Pipeline(c) ==
  \/ Begin(c)
  \/ DownloadRaise(c, DownloadError)
  \/ GetExisting(c)
  \/ GetTimeout(c)
  \/ TimeoutLock(c)
  \/ TimeoutExhausted(c)
  \/ CreateOk(c)
  \/ GetCreated(c)
  \/ TranscribeOk(c)
  \/ TranscribeRaise(c, EngineError)

\* the service as main.py builds it: one TaskProcessor on the Store
Next ==
  \/ Ingress
  \/ Processor(1)
  \/ \E t \in Tasks : Pipeline(<<1, t>>)

Spec == Init /\ [][Next]_vars

\* two TaskProcessor instances running their claim cycles on one Store
InitTwo ==
  /\ InitStore
  /\ InitIdle
  /\ \E mn \in 0..1 : InitPool(mn, 1, FALSE)
  /\ max_concurrent_tasks = OptimalMaxConcurrent(1, 1)

NextTwo ==
  \/ CreateTask("normal", Null)
  \/ \E p \in Procs : Processor(p)
  \/ \E c \in Clients : Pipeline(c)

SpecTwo == InitTwo /\ [][NextTwo]_vars

\* the service when nothing fails: every task has its file, the Store answers,
\* every engine call returns; each coroutine and each executor thread keeps
\* being scheduled
HealthyPipeline(c) ==
  \/ Begin(c)
  \/ GetExisting(c)
  \/ GetTimeout(c)
  \/ TimeoutLock(c)
  \/ TimeoutExhausted(c)
  \/ CreateOk(c)
  \/ GetCreated(c)
  \/ TranscribeOk(c)

InitLive ==
  /\ InitStore
  /\ InitIdle
  /\ \E mn \in 0..MaxPool : \E withMax \in BOOLEAN : InitPool(mn, MaxPool, withMax)
  /\ max_concurrent_tasks = OptimalMaxConcurrent(MaxPool, MaxPool)

NextLive ==
  \/ Ingress
  \/ Processor(1)
  \/ \E t \in Tasks : HealthyPipeline(<<1, t>>)

SpecLive ==
  /\ InitLive
  /\ [][NextLive]_vars
  /\ WF_vars(FetchWorker(1))
  /\ WF_vars(ProcessWorker(1))
  /\ WF_vars(UpdateWorker(1))
  /\ \A t \in Tasks : WF_vars(HealthyPipeline(<<1, t>>))

\* the pool on its own, from construction on, under direct callers
PoolCallers == {<<1, t>> : t \in Tasks}

InitConstructed ==
  /\ InitStore
  /\ InitIdle
  /\ \E mx \in 1..MaxPool : \E mn \in 0..mx :
       /\ max_size = mx
       /\ min_size = mn
       /\ maxsize = mx
  /\ pool = <<>>
  /\ current_size = 0
  /\ size_lock = NoOne
  /\ resize_lock = NoOne
  /\ initPc = "new"
  /\ initLeft = 0
  /\ resizePc = "idle"
  /\ resizeLeft = 0
  /\ max_concurrent_tasks = 1

Initialize ==
  \/ \E withMax \in BOOLEAN : InitializeStart(withMax)
  \/ InitializeCreate
  \/ InitializeDone

Resize ==
  \/ \E new_min_size, new_max_size \in 0..MaxPool : ResizeStart(new_min_size, new_max_size)
  \/ ResizeGrow
  \/ ResizeGrowPut
  \/ ResizeShrink
  \/ ResizeKeep

PoolCaller(c) ==
  \/ CallGetModel(c)
  \/ GetExisting(c)
  \/ GetTimeout(c)
  \/ TimeoutLock(c)
  \/ RaiseExhausted(c)
  \/ CreateOk(c)
  \/ CreateFail(c)
  \/ GetCreated(c)
  \/ CallGetDynamic(c)
  \/ DynamicLock(c)
  \/ DynamicGet(c)
  \/ DynamicTimeout(c)
  \/ CallReturnModel(c)

NextPool ==
  \/ Initialize
  \/ Resize
  \/ \E c \in PoolCallers : PoolCaller(c)

SpecPool == InitConstructed /\ [][NextPool]_vars

\* The callers of the pool alone, on a pool that was built and not filled,
\* each caller that is inside a call scheduled fairly: a coroutine that can
\* take its next step takes it, and a caller that holds a handle hands it
\* back.  Nobody is obliged to start a call.
InCall(c) == pipe[c] # "idle" /\ PoolCaller(c)

NextCallers == \E c \in PoolCallers : PoolCaller(c)

SpecCallers ==
  /\ InitConstructed
  /\ [][NextCallers]_vars
  /\ \A c \in PoolCallers : WF_vars(InCall(c))

\* The pool with every call that was started scheduled fairly: callers
\* inside get_model or holding a handle, a running initialize_pool and a
\* running resize_pool take their next step when they can.
InInitialize == initPc = "creating" /\ Initialize

InResize == resizePc # "idle" /\ Resize

SpecPoolFair ==
  /\ InitConstructed
  /\ [][NextPool]_vars
  /\ \A c \in PoolCallers : WF_vars(InCall(c))
  /\ WF_vars(InInitialize)
  /\ WF_vars(InResize)

\* The callback path: one processor with a warm pool of one handle, tasks
\* with and without a callback_url, the engine succeeding or raising, and an
\* endpoint that answers each POST as it likes.  Every coroutine of the
\* processor's loop and every pipeline thread is scheduled fairly.
CallbackUrls == {Null, "http://cb"}

CallbackWorker(p) ==
  \/ CallbackGet(p)
  \/ CallbackGetTask(p)
  \/ \E a \in Answers : CallbackPost(p, a)
  \/ CallbackRecord(p)

CallbackPipeline(c) ==
  \/ Begin(c)
  \/ GetExisting(c)
  \/ TranscribeOk(c)
  \/ TranscribeRaise(c, EngineError)

InitCallback ==
  /\ InitStore
  /\ InitIdle
  /\ InitPool(1, 1, FALSE)
  /\ max_concurrent_tasks = OptimalMaxConcurrent(1, 1)

NextCallback ==
  \/ \E url \in CallbackUrls : CreateTask("normal", url)
  \/ Processor(1)
  \/ CallbackWorker(1)
  \/ \E t \in Tasks : CallbackPipeline(<<1, t>>)

SpecCallback ==
  /\ InitCallback
  /\ [][NextCallback]_vars
  /\ WF_vars(FetchWorker(1))
  /\ WF_vars(ProcessWorker(1))
  /\ WF_vars(UpdateWorker(1))
  /\ WF_vars(CallbackWorker(1))
  /\ \A t \in Tasks : WF_vars(CallbackPipeline(<<1, t>>))

\* The processor next to a pool whose resize_pool is called while the service
\* runs: max_concurrent_tasks was fixed when the service was constructed.
InitResize ==
  /\ InitStore
  /\ InitIdle
  /\ \E mn \in 0..MaxPool : InitPool(mn, MaxPool, FALSE)
  /\ \E cfg \in 0..MaxCfg :
       max_concurrent_tasks = OptimalMaxConcurrent(cfg, MaxPool)

NextResize ==
  \/ CreateTask("normal", Null)
  \/ Processor(1)
  \/ \E t \in Tasks : Pipeline(<<1, t>>)
  \/ Resize

SpecResize == InitResize /\ [][NextResize]_vars

\* Shutdown: one processor with all five worker coroutines, stop() called at
\* any moment.  The tasks carry no callback_url, so callback_worker only takes
\* its items off the queue.  Every coroutine, every pipeline thread and
\* run_loop are scheduled fairly; nothing forces stop() to be called.
ProcessWorkerStop(p) == ProcessWorker(p) \/ ProcessExit(p)

RunLoop(p) == LoopStopped(p) \/ LoopClose(p) \/ StopReturn(p)

NextStop ==
  \/ CreateTask("normal", Null)
  \/ FetchWorker(1)
  \/ ProcessWorkerStop(1)
  \/ UpdateWorker(1)
  \/ CleanupGet(1)
  \/ CallbackGet(1)
  \/ \E t \in Tasks : CallbackPipeline(<<1, t>>)
  \/ Stop(1)
  \/ RunLoop(1)

SpecStop ==
  /\ InitCallback
  /\ [][NextStop]_vars
  /\ WF_vars(FetchWorker(1))
  /\ WF_vars(ProcessWorkerStop(1))
  /\ WF_vars(UpdateWorker(1))
  /\ WF_vars(CleanupGet(1))
  /\ WF_vars(CallbackGet(1))
  /\ WF_vars(RunLoop(1))
  /\ \A t \in Tasks : WF_vars(CallbackPipeline(<<1, t>>))

\* Deletion: the administrative delete_task called at any moment on any
\* existing row, next to one processor whose tasks all carry a callback_url
\* and whose callback endpoint answers every POST with 200 and a body.
OkAnswer == [status_code |-> "200", text |-> Text(MessageLimit + 1, FALSE)]

HealthyCallback(p) ==
  \/ CallbackGet(p)
  \/ CallbackGetTask(p)
  \/ CallbackPost(p, OkAnswer)
  \/ CallbackRecord(p)

NextDelete ==
  \/ CreateTask("normal", "http://cb")
  \/ Processor(1)
  \/ HealthyCallback(1)
  \/ \E t \in Tasks : CallbackPipeline(<<1, t>>)
  \/ \E t \in Tasks : DeleteTask(t)

SpecDelete ==
  /\ InitCallback
  /\ [][NextDelete]_vars
  /\ WF_vars(FetchWorker(1))
  /\ WF_vars(ProcessWorker(1))
  /\ WF_vars(UpdateWorker(1))
  /\ WF_vars(HealthyCallback(1))
  /\ \A t \in Tasks : WF_vars(CallbackPipeline(<<1, t>>))

\* The task-result endpoint: GET /tasks/result?task_id=... called at any
\* moment next to one processor, with the Store answering or failing.
\* A Store failure is either a query that raises inside get_task or a
\* connection that cannot be opened by get_session.
StoreFaults == {"none", "query", "connect"}

\* TaskStatusHttpCode
TaskStatusHttpCode(name) ==
  CASE name = "queued" -> "202"
    [] name = "processing" -> "202"
    [] name = "completed" -> "200"
    [] name = "failed" -> "500"

\* TaskStatusHttpMessage
TaskStatusHttpMessage(name) ==
  CASE name = "queued" -> "Task is queued and not started yet"
    [] name = "processing" -> "Task is currently being processed"
    [] name = "completed" -> "Task has been completed"
    [] name = "not_found" -> "Task not found or has been deleted or invalid task ID"
    [] name = "failed" -> "Task failed during processing"
    [] name = "service_unavailable" -> "Database error occurred. Please try again later."

\* DatabaseManager.get_task as the endpoint calls it: a query that raises
\* SQLAlchemyError is logged and answered with None
GetTaskOrNone(t, fault) == IF fault = "query" THEN None ELSE GetTask(t)

\* HTTPException(status_code, detail=ErrorResponseModel(code, message, ...))
ErrorResponse(code, message) == [status_code |-> code, message |-> message, data |-> None]

\* the body of task_result
TaskResultResponse(t, fault) ==
  IF fault = "connect"
    THEN ErrorResponse("503", TaskStatusHttpMessage("service_unavailable"))
    ELSE LET task == GetTaskOrNone(t, fault) IN
      IF task = None
        THEN ErrorResponse("404", TaskStatusHttpMessage("not_found"))
      ELSE IF task.status = "queued"
        THEN ErrorResponse(TaskStatusHttpCode("queued"), TaskStatusHttpMessage("queued"))
      ELSE IF task.status = "processing"
        THEN ErrorResponse(TaskStatusHttpCode("processing"), TaskStatusHttpMessage("processing"))
      ELSE IF task.status = "failed"
        THEN ErrorResponse(TaskStatusHttpCode("failed"), TaskStatusHttpMessage("failed"))
      ELSE [status_code |-> TaskStatusHttpCode("completed"), message |-> Null,
            data |-> ToDict(t, task)]

\* one call of the endpoint; `response` keeps the answer next to the request
\* and the row as the Store held it at that moment
TaskResult(t, fault) ==
  /\ response' = [task_id |-> t, fault |-> fault, row |-> GetTask(t)] @@
                  TaskResultResponse(t, fault)
  /\ UNCHANGED <<storeVars, poolVars, fetchVars, procVars, pipeVars, histVars, backlog,
                 adminVars, fileVars, dbVars, devVars, stopVars, updVars, cleanVars, cbVars>>

NextResult ==
  \/ CreateTask("normal", Null)
  \/ Processor(1)
  \/ \E t \in Tasks : CallbackPipeline(<<1, t>>)
  \/ \E t \in Tasks : \E fault \in StoreFaults : TaskResult(t, fault)

SpecResult == InitCallback /\ [][NextResult]_vars

\* URL tasks: every task has a file_url and no file_path, so its pipeline
\* starts with FileUtils.download_file_from_url.  Sizes are counted in units
\* of which MAX_FILE_SIZE is two.
MAX_FILE_SIZE == 2
FileSizes == 1..(MAX_FILE_SIZE + 1)

\* the Content-Range header of the answer to `Range: bytes=0-1023`: absent,
\* without a total ("bytes 0-1023/*"), or with the total size
ContentRanges == {None, [unknown |-> TRUE]} \cup {[total |-> n] : n \in FileSizes}

\* re.search(r"/(\d+)$", content_range) finds the total
HasTotal(cr) == "total" \in DOMAIN cr

\* a check that never refuses
SizeExceeds_Never(cr) == FALSE

\* if self.LIMIT_FILE_SIZE and file_size > self.MAX_FILE_SIZE
SizeExceeds(cr) == limit_file_size /\ HasTotal(cr) /\ cr.total > MAX_FILE_SIZE

\* ValueError(f"File size exceeds the limit: {file_size} > {self.MAX_FILE_SIZE}")
SizeError(file_size) ==
  [type |-> "ValueError",
   msg |-> "File size exceeds the limit: " \o ToString(file_size) \o " > "
           \o ToString(MAX_FILE_SIZE)]
\* APIFileDownloadError raised by AsyncHttpClient.download_file
FileDownloadError == [type |-> "APIFileDownloadError", msg |-> "Failed to download file from url"]
\* ValueError raised when is_allowed_file_type refuses the downloaded file
FileTypeError == [type |-> "ValueError", msg |-> "File type from URL url is not supported."]

\* `sub in s` for two strings
Contains(s, sub) ==
  \E i \in 1..(Len(s) - Len(sub) + 1) : SubSeq(s, i, i + Len(sub) - 1) = sub

\* the ranged GET and the size check; the handler of _process_task_sync
\* turns the ValueError into a FAILED update
Probe(c, cr) ==
  /\ pipe[c] = "start"
  /\ probed' = [probed EXCEPT ![c] = cr]
  /\ IF SizeExceeds(cr)
       THEN /\ update_queue' = [update_queue EXCEPT ![c[1]] =
                                 Enqueued(@, c[2], FailedUpdate(SizeError(cr.total)))]
            /\ enq' = [enq EXCEPT ![c] = Append(@, [exc |-> SizeError(cr.total),
                                                    data |-> FailedUpdate(SizeError(cr.total))])]
            /\ pipe' = [pipe EXCEPT ![c] = "done"]
       ELSE /\ pipe' = [pipe EXCEPT ![c] = "download"]
            /\ UNCHANGED <<update_queue, enq>>
  /\ UNCHANGED <<storeVars, poolVars, fetchVars, max_concurrent_tasks, workerPc, batch,
                 held, claimed, inflight, backlog, adminVars, stopVars, updVars,
                 cleanVars, cbVars, apiVars, dbVars, devVars, limit_file_size, fetched, temp, file_path>>

\* client.download_file writes the file, the type check and the attribute
\* checks pass, task.file_path is set: on to get_model
DownloadFile(c) ==
  /\ pipe[c] = "download"
  /\ fetched' = fetched \cup {c}
  /\ temp' = temp \cup {c[2]}
  /\ file_path' = file_path \cup {c[2]}
  /\ pipe' = [pipe EXCEPT ![c] = "wait"]
  /\ UNCHANGED <<storeVars, poolVars, fetchVars, procVars, held, histVars, backlog,
                 adminVars, stopVars, updVars, cleanVars, cbVars, apiVars, dbVars, devVars,
                 limit_file_size, probed>>

\* the stream fails (before or after the file was opened), or the type check
\* refuses the file and deletes it: task.file_path stays unset
DownloadFileRaise(c, e, left) ==
  /\ pipe[c] = "download"
  /\ fetched' = fetched \cup {c}
  /\ temp' = IF left THEN temp \cup {c[2]} ELSE temp
  /\ PipelineExcept(c, e)
  /\ UNCHANGED <<storeVars, poolVars, fetchVars, max_concurrent_tasks, workerPc, batch,
                 held, claimed, inflight, backlog, adminVars, stopVars, updVars,
                 cleanVars, cbVars, apiVars, dbVars, devVars, limit_file_size, probed, file_path>>

UrlPipeline(c) ==
  \/ \E cr \in ContentRanges : Probe(c, cr)
  \/ DownloadFile(c)
  \/ \E left \in BOOLEAN : DownloadFileRaise(c, FileDownloadError, left)
  \/ DownloadFileRaise(c, FileTypeError, FALSE)
  \/ GetExisting(c)
  \/ TranscribeOk(c)
  \/ TranscribeRaise(c, EngineError)

InitDownload ==
  /\ InitStore
  /\ InitQueues
  /\ limit_file_size \in BOOLEAN
  /\ pipe = [c \in Clients |-> "idle"]
  /\ InitPool(1, 1, FALSE)
  /\ max_concurrent_tasks = OptimalMaxConcurrent(1, 1)

NextDownload ==
  \/ CreateTask("normal", Null)
  \/ Processor(1)
  \/ CleanupGet(1)
  \/ \E t \in Tasks : UrlPipeline(<<1, t>>)

SpecDownload ==
  /\ InitDownload
  /\ [][NextDownload]_vars
  /\ WF_vars(FetchWorker(1))
  /\ WF_vars(ProcessWorker(1))
  /\ WF_vars(UpdateWorker(1))
  /\ WF_vars(CleanupGet(1))
  /\ \A t \in Tasks : WF_vars(UrlPipeline(<<1, t>>))

\* The pool from the call of its constructor on: any arguments on any host,
\* then the operations of SpecPool on the instance that was built.
InitUnbuilt ==
  /\ InitStore
  /\ InitQueues
  /\ limit_file_size = TRUE
  /\ pipe = [c \in Clients |-> "unbuilt"]
  /\ max_size = 0
  /\ min_size = 0
  /\ maxsize = 0
  /\ pool = <<>>
  /\ current_size = 0
  /\ size_lock = NoOne
  /\ resize_lock = NoOne
  /\ initPc = "unbuilt"
  /\ initLeft = 0
  /\ resizePc = "unbuilt"
  /\ resizeLeft = 0
  /\ max_concurrent_tasks = 1

NextConstruct ==
  \/ \E mn, mx \in 0..MaxPool : \E g \in GpuCounts : \E n \in CpuThreads :
       Construct(mn, mx, g, n)
  \/ NextPool

SpecConstruct == InitUnbuilt /\ [][NextConstruct]_vars

(* ---------- DatabaseManager: connection loss and reconnection ----------- *)
\* self._max_retries
max_retries == 5

\* nesting at which the interpreter ends a recursion with RecursionError
MaxDepth == 2

StoreOps == {"initialize", "add_task", "get_queued_tasks", "update_task"}

\* "down": no connection can be opened and every statement raises
\* OperationalError; "locked": connections open, every statement raises
\* OperationalError
DbFaults == {"none", "down", "locked"}

NotDb == <<storeVars, poolVars, fetchVars, procVars, pipeVars, histVars, backlog,
           adminVars, stopVars, updVars, cleanVars, cbVars, apiVars, fileVars, devVars>>

\* the operation is over: every nested call has returned or raised
Finish(result) ==
  /\ dbOp' = "none"
  /\ dbPc' = "idle"
  /\ dbDepth' = 0
  /\ retry_count' = 0
  /\ dbResult' = result

\* a caller starts one operation; initialize() is called once, on a manager
\* that is not connected yet, and goes straight to _connect, which the fault
\* "locked" does not concern
StoreCall(op, fault) ==
  /\ dbOp = "none"
  /\ op = "initialize" => (~is_connected /\ fault # "locked")
  /\ dbOp' = op
  /\ dbFault' = fault
  /\ dbPc' = IF op = "initialize" THEN "connect" ELSE "session"
  /\ dbDepth' = 0
  /\ retry_count' = 0
  /\ attempts' = 0
  /\ dbResult' = "pending"
  /\ UNCHANGED <<is_connected, mutation>>
  /\ UNCHANGED NotDb

\* get_session: `if not self._is_connected: await self._connect()`, then the
\* session is yielded to the body
GetSession ==
  /\ dbPc = "session"
  /\ dbPc' = IF is_connected THEN "body" ELSE "connect"
  /\ retry_count' = 0
  /\ UNCHANGED <<is_connected, dbFault, dbOp, dbDepth, attempts, dbResult, mutation>>
  /\ UNCHANGED NotDb

\* _connect: the engine connects, _is_connected = True. Called by initialize
\* it returns to the caller; called at the head of get_session it is followed
\* by the body; called in get_session's `except OperationalError` it is
\* followed by a second `yield session`, which the context manager answers
\* with RuntimeError, an exception no handler of the operation catches
ConnectOk ==
  /\ dbPc \in {"connect", "reconnect"}
  /\ ~is_connected
  /\ dbFault # "down"
  /\ attempts' = attempts + 1
  /\ is_connected' = TRUE
  /\ IF dbOp = "initialize" THEN Finish("ok")
     ELSE IF dbPc = "reconnect" THEN Finish("raised")
     ELSE /\ dbPc' = "body"
          /\ UNCHANGED <<dbOp, dbDepth, retry_count, dbResult>>
  /\ UNCHANGED <<dbFault, mutation>>
  /\ UNCHANGED NotDb

\* _connect: OperationalError; retry_count += 1 and, below _max_retries, sleep
\* and try again; at _max_retries the error is raised. Raised inside a nested
\* call it passes through the caller's `except OperationalError` clause (it
\* was raised inside that clause) into the caller's get_session, whose own
\* `except OperationalError` sets _is_connected = False and calls _connect
ConnectFail ==
  /\ dbPc \in {"connect", "reconnect"}
  /\ ~is_connected
  /\ dbFault = "down"
  /\ attempts' = attempts + 1
  /\ IF retry_count + 1 < max_retries
       THEN /\ retry_count' = retry_count + 1
            /\ UNCHANGED <<dbOp, dbPc, dbDepth, dbResult>>
       ELSE IF dbDepth = 0
              THEN Finish("raised")
              ELSE /\ dbDepth' = dbDepth - 1
                   /\ dbPc' = "reconnect"
                   /\ retry_count' = 0
                   /\ UNCHANGED <<dbOp, dbResult>>
  /\ UNCHANGED <<is_connected, dbFault, mutation>>
  /\ UNCHANGED NotDb

\* the body of the operation runs its statement and commits. On
\* OperationalError add_task and get_queued_tasks set _is_connected = False and
\* call themselves; update_task catches it as SQLAlchemyError, rolls back and
\* returns None
Statement ==
  /\ dbPc = "body"
  /\ IF dbFault = "none"
       THEN Finish("ok") /\ UNCHANGED is_connected
       ELSE IF dbOp = "update_task"
              THEN Finish("returned None") /\ UNCHANGED is_connected
              ELSE /\ is_connected' = FALSE
                   /\ IF dbDepth < MaxDepth
                        THEN /\ dbDepth' = dbDepth + 1
                             /\ dbPc' = "session"
                             /\ UNCHANGED <<dbOp, retry_count, dbResult>>
                        ELSE Finish("raised")
  /\ UNCHANGED <<dbFault, attempts, mutation>>
  /\ UNCHANGED NotDb

\* the Store comes back while the operation runs
StoreRecover ==
  /\ dbOp # "none"
  /\ dbFault # "none"
  /\ dbFault' = "none"
  /\ UNCHANGED <<is_connected, dbOp, dbPc, dbDepth, retry_count, attempts, dbResult, mutation>>
  /\ UNCHANGED NotDb

\* The DatabaseManager alone: one caller at a time, each operation under a
\* fault that lasts until the Store recovers.
NextStore ==
  \/ \E op \in StoreOps : \E fault \in DbFaults : StoreCall(op, fault)
  \/ GetSession
  \/ ConnectOk
  \/ ConnectFail
  \/ Statement
  \/ StoreRecover

SpecStore ==
  /\ InitCallback
  /\ [][NextStore]_vars
  /\ WF_vars(GetSession \/ ConnectOk \/ ConnectFail \/ Statement)

(* ------------- DatabaseManager: mutations and their commits ------------- *)
\* where an SQLAlchemyError is raised inside a mutation of one row
MutationFaults == {"none", "get", "commit"}

\* update_data of the callers
UpdateData == {[status |-> "processing"], FailedUpdate(EngineError), CompletedUpdate}

\* task_ids of a bulk call (ids of rows that may or may not exist)
IdLists == {s \in UNION {[1..k -> Tasks] : k \in 1..MaxTasks} :
              \A i, j \in DOMAIN s : i < j => s[i] # s[j]}

\* the last mutation: `seq` tells two equal calls in a row apart
Mutation(op, failed) ==
  [op |-> op, failed |-> failed, seq |-> IF mutation = None THEN 0 ELSE 1 - mutation.seq]

NotStore == <<nextId, attrs, poolVars, fetchVars, procVars, pipeVars, histVars, backlog,
              adminVars, stopVars, updVars, cleanVars, cbVars, apiVars, fileVars, devVars,
              is_connected, dbFault, dbOp, dbPc, dbDepth, retry_count, attempts, dbResult>>

\* update_task: session.get, setattr for every key, one commit; an
\* SQLAlchemyError at any point is answered by session.rollback()
CallUpdateTask(t, data, fault) ==
  /\ store' = IF fault = "none" THEN UpdateTask(store, rows, t, data) ELSE store
  /\ mutation' = Mutation("update_task", fault # "none")
  /\ UNCHANGED rows
  /\ UNCHANGED NotStore

\* update_task_callback_status: the three columns, one commit, rollback on
\* SQLAlchemyError
CallUpdateTaskCallbackStatus(t, fault) ==
  /\ store' = IF fault = "none"
                THEN UpdateTaskCallbackStatus(store, rows, t, "200", Text(1, FALSE), "now")
                ELSE store
  /\ mutation' = Mutation("update_task_callback_status", fault # "none")
  /\ UNCHANGED rows
  /\ UNCHANGED NotStore

\* delete_task: session.get, session.delete, one commit, rollback on
\* SQLAlchemyError
CallDeleteTask(t, fault) ==
  /\ rows' = IF fault = "none" THEN rows \ {t} ELSE rows
  /\ store' = IF fault = "none" /\ t \in rows THEN [store EXCEPT ![t] = BlankRow] ELSE store
  /\ mutation' = Mutation("delete_task", fault # "none")
  /\ UNCHANGED NotStore

\* the ids whose iteration of the loop ran to its end: all of them, or those
\* before the iteration failAt in which the error was raised
Done(task_ids, failAt) ==
  IF failAt = 0 THEN task_ids ELSE SubSeq(task_ids, 1, failAt - 1)

RECURSIVE UpdateEach(_, _, _, _)
UpdateEach(st, present, ids, data) ==
  IF ids = <<>> THEN st
  ELSE UpdateEach(UpdateTask(st, present, Head(ids), data), present, Tail(ids), data)

\* bulk_update_tasks: `for task_id in task_ids`: session.get, setattr for every
\* key, and `await session.commit()` inside the loop; an SQLAlchemyError in
\* iteration failAt rolls back what that iteration has not committed
BulkUpdateTasks(task_ids, update_data, failAt) ==
  /\ store' = UpdateEach(store, rows, Done(task_ids, failAt), update_data)
  /\ mutation' = Mutation("bulk_update_tasks", failAt # 0)
  /\ UNCHANGED rows
  /\ UNCHANGED NotStore

\* bulk_delete_tasks: `for task_id in task_ids`: session.get, session.delete;
\* one commit after the loop; an SQLAlchemyError anywhere rolls back all
BulkDeleteTasks(task_ids, failAt) ==
  /\ rows' = IF failAt = 0 THEN rows \ Range(task_ids) ELSE rows
  /\ store' = IF failAt = 0
                THEN [t \in Tasks |-> IF t \in rows /\ t \in Range(task_ids)
                                        THEN BlankRow ELSE store[t]]
                ELSE store
  /\ mutation' = Mutation("bulk_delete_tasks", failAt # 0)
  /\ UNCHANGED NotStore

\* The Store under its mutations, each called with and without a failure.
NextMutate ==
  \/ CreateTask("normal", Null)
  \/ \E t \in Tasks : \E data \in UpdateData : \E fault \in MutationFaults :
       CallUpdateTask(t, data, fault)
  \/ \E t \in Tasks : \E fault \in MutationFaults : CallUpdateTaskCallbackStatus(t, fault)
  \/ \E t \in Tasks : \E fault \in MutationFaults : CallDeleteTask(t, fault)
  \/ \E ids \in IdLists : \E data \in UpdateData : \E failAt \in 0..Len(ids) :
       BulkUpdateTasks(ids, data, failAt)
  \/ \E ids \in IdLists : \E failAt \in 0..Len(ids) : BulkDeleteTasks(ids, failAt)

SpecMutate == InitCallback /\ [][NextMutate]_vars

(* ------------------------- allocate_device ----------------------------- *)
Engines == {"faster_whisper", "openai_whisper"}

\* faster_whisper_device and openai_whisper_device of the settings; Null is
\* Python's None
DeviceSettings == {"auto", Null, "cpu", "cuda"}

\* instance_index of the callers
InstanceIndexes == 0..MaxHandles

\* device_index None, or no device_index at all
NoIndex == -1

\* allocate_device(instance_index, device_type, model_type) on a host with
\* num_gpus devices (torch.cuda.is_available() is num_gpus > 0)
AllocateDevice(instance_index, device_type, model_type, num_gpus) ==
  LET auto == IF num_gpus > 0 THEN "cuda" ELSE "cpu"
      dt == IF model_type = "faster_whisper" /\ device_type = "auto" THEN auto
            ELSE IF model_type = "openai_whisper" /\ device_type = Null THEN auto
            ELSE device_type
      fw == model_type = "faster_whisper"
      device_index == instance_index % Max(1, num_gpus)
  IN IF dt = "cuda" /\ num_gpus > 0
       THEN IF num_gpus = 1
              THEN [device |-> "cuda", device_index |-> IF fw THEN 0 ELSE NoIndex,
                    compute_type |-> "float16"]
              ELSE [device |-> IF fw THEN "cuda" ELSE "cuda:" \o ToString(device_index),
                    device_index |-> IF fw THEN device_index ELSE NoIndex,
                    compute_type |-> "float16"]
       ELSE [device |-> "cpu", device_index |-> NoIndex, compute_type |-> "float32"]

\* the GPU the engine loads the model on: WhisperModel(device,
\* device_index=allocation.get("device_index", 0)) and
\* whisper.load_model(device=...); NoIndex when it loads on the CPU
LoadedOn(model_type, a) ==
  IF a.device = "cpu" THEN NoIndex
  ELSE IF model_type = "faster_whisper" THEN a.device_index
  ELSE IF a.device = "cuda" THEN 0
  ELSE CHOOSE k \in 0..MaxHandles : a.device = "cuda:" \o ToString(k)

\* _create_and_put_model(instance_index): the device is allocated from
\* self.fast_whisper_device, whatever the engine
CreateAndPutModel(engine, fast_whisper_device, openai_whisper_device, num_gpus, instance_index) ==
  /\ LET a == AllocateDevice(instance_index, fast_whisper_device, engine, num_gpus) IN
       allocation' = [engine |-> engine, fast_whisper_device |-> fast_whisper_device,
                      openai_whisper_device |-> openai_whisper_device,
                      num_gpus |-> num_gpus, instance_index |-> instance_index,
                      device |-> a.device, compute_type |-> a.compute_type,
                      gpu |-> LoadedOn(engine, a)]
  /\ UNCHANGED <<storeVars, poolVars, fetchVars, procVars, pipeVars, histVars, backlog,
                 adminVars, stopVars, updVars, cleanVars, cbVars, apiVars, fileVars, dbVars>>

\* Instances are created under every combination of engine, device settings,
\* number of GPUs and instance index.
NextDevice ==
  \E engine \in Engines : \E fwd \in DeviceSettings \ {Null} : \E owd \in DeviceSettings \ {"auto"} :
    \E g \in GpuCounts : \E i \in InstanceIndexes :
      CreateAndPutModel(engine, fwd, owd, g, i)

SpecDevice == InitCallback /\ [][NextDevice]_vars

(* ------------------ fetch_task_worker: a failed claim cycle -------------- *)
\* await fetch_queue.get(); get_queued_tasks raises: `except Exception` logs,
\* `finally: task_done()`, and the worker is back at the head of its loop;
\* nothing is put on task_processing_queue
FetchSelectRaise(p) ==
  /\ fetchPc[p] = "get"
  /\ fetch_queue[p] > 0
  /\ fetch_queue' = [fetch_queue EXCEPT ![p] = @ - 1]
  /\ fetchPc' = [fetchPc EXCEPT ![p] = LoopHead(p, "get")]
  /\ UNCHANGED <<fetchBatch, fetchTodo, task_processing_queue>>
  /\ UNCHANGED <<adminVars, backlog, sideVars>>
  /\ UNCHANGED <<storeVars, poolVars, procVars, pipeVars, histVars>>

\* update_task(task.id, status=PROCESSING) raises inside the `for` loop: the
\* rows updated before stay PROCESSING, the batch is dropped with the
\* coroutine's locals, nothing is put on task_processing_queue
FetchUpdateRaise(p) ==
  /\ fetchPc[p] = "update"
  /\ fetchTodo[p] # <<>>
  /\ fetchBatch' = [fetchBatch EXCEPT ![p] = <<>>]
  /\ fetchTodo' = [fetchTodo EXCEPT ![p] = <<>>]
  /\ fetchPc' = [fetchPc EXCEPT ![p] = LoopHead(p, "get")]
  /\ UNCHANGED <<fetch_queue, task_processing_queue>>
  /\ UNCHANGED <<adminVars, backlog, sideVars>>
  /\ UNCHANGED <<storeVars, poolVars, procVars, pipeVars, histVars>>

\* The healthy processor of SpecLive next to a Store whose claim query and
\* whose update to PROCESSING may raise.
NextFetchFail ==
  \/ Ingress
  \/ Processor(1)
  \/ FetchSelectRaise(1)
  \/ FetchUpdateRaise(1)
  \/ \E t \in Tasks : HealthyPipeline(<<1, t>>)

SpecFetchFail ==
  /\ InitLive
  /\ [][NextFetchFail]_vars
  /\ WF_vars(FetchWorker(1) \/ FetchSelectRaise(1) \/ FetchUpdateRaise(1))
  /\ WF_vars(ProcessWorker(1))
  /\ WF_vars(UpdateWorker(1))
  /\ \A t \in Tasks : WF_vars(HealthyPipeline(<<1, t>>))

(* ------------------------------ claims --------------------------------- *)
Status(t) == store[t].status
Transcribing == {c \in Clients : pipe[c] = "transcribe"}
ProcessingRows == {t \in rows : Status(t) = "processing"}
HighBacklog == {t \in backlog : attrs[t].priority = "high"}

\* priority a is strictly more urgent than priority b
Dominates(a, b) ==
  \/ a = "high" /\ b \in {"normal", "low"}
  \/ a = "normal" /\ b = "low"

\* C1 (as claimed): no task is returned by more than one claim cycle, also
\* when two processor instances claim from the same Store.
C1_ClaimedAtMostOnce == \A t \in Tasks : claimed[t] <= 1

C4_SizeWithinMax == current_size <= max_size

\* C5: the number of pipelines inside the engine's transcribe call never
\* exceeds max_concurrent_tasks nor the pool's max_size.
C5_TranscribeBound ==
  /\ Cardinality(Transcribing) <= max_concurrent_tasks
  /\ Cardinality(Transcribing) <= max_size

\* C5 witness: two pipelines are inside transcribe at once, which is the cap
C5_Witness == Cardinality(Transcribing) = 2 /\ max_concurrent_tasks = 2

\* C6 (as claimed): with max_size = max_concurrent_tasks = K at most K rows
\* are PROCESSING at any instant.
C6_ProcessingAtMostK ==
  (max_size = max_concurrent_tasks) =>
     Cardinality(ProcessingRows) <= max_concurrent_tasks

\* C7 (as claimed): when nothing fails every task that was submitted is
\* eventually COMPLETED, whether the pool was filled to max_size or to min_size.
C7_AllEventuallyCompleted ==
  \A t \in Tasks : (t \in rows) ~> (Status(t) = "completed")

\* C8: a claim cycle never takes a task while it leaves QUEUED a task of a
\* more urgent priority (HIGH before NORMAL before LOW), and out of a backlog
\* holding H HIGH tasks the first min(H, max_size) tasks put in flight are HIGH.
C8_PriorityDominance ==
  /\ [][\A p \in Procs :
          (fetchPc[p] = "get" /\ fetchPc'[p] = "update") =>
             \A t \in Range(fetchBatch'[p]) : \A u \in Queued \ Range(fetchBatch'[p]) :
                ~Dominates(attrs[u].priority, attrs[t].priority)]_vars
  /\ [](\A i \in 1..Min(Min(Cardinality(HighBacklog), max_size), Len(inflight)) :
          attrs[inflight[i]].priority = "high")

\* C8 witness: a HIGH task submitted after a LOW one, both in the backlog, was
\* put in flight ahead of it
C8_Witness ==
  /\ Len(inflight) >= 2
  /\ {inflight[1], inflight[2]} \subseteq backlog
  /\ attrs[inflight[1]].priority = "high"
  /\ attrs[inflight[2]].priority = "low"
  /\ inflight[1] > inflight[2]

\* C9 (as claimed): of two tasks of equal priority the one created earlier
\* (the smaller id) is put in flight first.
C9_FifoWithinPriority ==
  \A i, j \in 1..Len(inflight) :
    (i < j /\ attrs[inflight[i]].priority = attrs[inflight[j]].priority)
      => inflight[i] < inflight[j]

\* C10: a pipeline run that has returned has enqueued exactly one update, a
\* terminal one: COMPLETED with a result when nothing raised, else FAILED with
\* the message of the exception that was raised; a run still under way has
\* enqueued none.
C10_OneTerminalUpdate ==
  \A c \in Clients :
    /\ pipe[c] \notin {"idle", "done"} => enq[c] = <<>>
    /\ pipe[c] = "done" =>
         /\ Len(enq[c]) = 1
         /\ IF enq[c][1].exc.type = "none"
              THEN enq[c][1].data = [status |-> "completed", result |-> "R"]
              ELSE enq[c][1].data =
                     [status |-> "failed", error_message |-> enq[c][1].exc.msg]

\* C10 witness: one run has returned after the engine raised "boom", another
\* after a success
C10_Witness ==
  /\ \E c \in Clients : pipe[c] = "done" /\ enq[c][1].exc = EngineError
  /\ \E c \in Clients : pipe[c] = "done" /\ enq[c][1].exc.type = "none"

Terminal == {"completed", "failed"}

\* C11: the payload of every callback POST has status COMPLETED or FAILED, and
\* no row that is still PROCESSING carries a callback record.
C11_CallbackAfterTerminal ==
  /\ \A t \in Tasks : sent[t] # None => sent[t].status \in Terminal
  /\ \A t \in rows : store[t].callback_time # Null => Status(t) # "processing"

\* C12: every task with a callback_url that reaches a terminal status
\* eventually has callback_time set, whatever the endpoint answers.
C12_CallbackEventuallyRecorded ==
  \A t \in Tasks :
    (t \in rows /\ attrs[t].callback_url # Null /\ Status(t) \in Terminal)
      ~> (store[t].callback_time # Null)

\* C13: once the callback worker has finished with a task, callback_time is
\* set exactly when at least one POST was sent for it; a task without a
\* callback_url gets no POST and no callback field.
C13_CallbackTimeIffPosted ==
  \A t \in handled :
    /\ (store[t].callback_time # Null) <=> (posts[t] >= 1)
    /\ attrs[t].callback_url = Null =>
         /\ posts[t] = 0
         /\ store[t].callback_status_code = Null
         /\ store[t].callback_message = None
         /\ store[t].callback_time = Null

\* C14: a non-2xx answer is retried: a finished notification leaves a non-2xx
\* record only after all three attempts were used.
C14_Non2xxRetried ==
  \A t \in handled :
    store[t].callback_status_code = "500" => posts[t] >= StopAfterAttempt

\* C15: one notification sends at most three POST requests.
C15_AtMostThreePosts == \A t \in Tasks : posts[t] <= 3

\* C16: after a delivered callback of a terminal task, the dictionary a query
\* returns equals the dictionary that was POSTed.
C16_RoundTrip ==
  \A t \in handled \cap rows :
    (Status(t) \in Terminal /\ store[t].callback_time # Null)
      => ToDict(t, store[t]) = sent[t]

\* C17: a step of the callback worker changes no column of any task other
\* than callback_status_code, callback_message and callback_time.
C17_CallbackFrame ==
  [][(cbWorkVars' # cbWorkVars) =>
       /\ rows' = rows
       /\ attrs' = attrs
       /\ \A t \in Tasks :
            /\ store'[t].status = store[t].status
            /\ store'[t].result = store[t].result
            /\ store'[t].error_message = store[t].error_message]_vars

\* one task got a non-2xx record and another exhausted its attempts without
\* any record; both are still COMPLETED with their result
C17_Witness ==
  \E t, u \in handled :
    /\ store[t].callback_status_code = "500"
    /\ Status(t) = "completed" /\ store[t].result # Null
    /\ posts[u] >= StopAfterAttempt /\ store[u].callback_time = Null
    /\ Status(u) = "completed" /\ store[u].result # Null

\* C18: every claim cycle returns at most as many tasks as the pool's
\* max_size allows handles, also when resize_pool has changed max_size.
C18_ClaimWithinPool ==
  [][\A p \in Procs :
       (fetchPc[p] = "get" /\ fetchPc'[p] = "update")
         => Len(fetchBatch'[p]) <= max_size]_vars

\* C19: once stop() has set shutdown_event, every worker coroutine exits, the
\* loop closes and stop() returns.
C19_ShutdownTerminates ==
  shutdown_event[1] ~> (WorkersExited(1) /\ loopPc[1] = "closed" /\ stopPc[1] = "returned")

\* C20: the pipeline of a claimed task reaches its end whether or not the row
\* still exists; an update that finds no row changes nothing in the Store and
\* leaves the update worker running; every row that is not deleted reaches a
\* terminal status.
C20_DeletedUpdateSkipped ==
  /\ [][\A p \in Procs :
          (/\ update_queue[p] # <<>>
           /\ update_queue'[p] = Tail(update_queue[p])
           /\ Head(update_queue[p]).id \notin rows)
            => (rows' = rows /\ store' = store /\ updPc'[p] = "get")]_vars
  /\ \A t \in Tasks : (pipe[<<1, t>>] = "start") ~> (pipe[<<1, t>>] = "done")
  /\ \A t \in Tasks : (t \in rows) ~> (t \notin rows \/ Status(t) \in Terminal)

\* task t was deleted before its terminal update was applied, and task u,
\* put in flight after t, is COMPLETED
C20_Witness ==
  \E t \in skipped : \E u \in rows :
    /\ t \notin rows
    /\ enq[<<1, t>>] # <<>>
    /\ Status(u) = "completed"
    /\ \E i, j \in DOMAIN inflight : i < j /\ inflight[i] = t /\ inflight[j] = u

\* C21: a construction that succeeds leaves min_size <= max_size, and a
\* construction with min_size greater than max_size is rejected.
C21_MinWithinMax ==
  /\ [][(initPc = "unbuilt" /\ initPc' = "new") => min_size' <= max_size']_vars
  /\ [](\A mn, mx \in 0..MaxPool : mn > mx => ConstructorRejects(mn, mx))

\* C22: the task-result endpoint answers 404 for a missing row, 202 with the
\* status text for a QUEUED or PROCESSING row, 200 with the task dictionary
\* for a COMPLETED row, 500 with the row's error_message for a FAILED row,
\* and 503 when the Store fails.
C22_ResultMapping ==
  response # None =>
    IF response.fault # "none" THEN response.status_code = "503"
    ELSE IF response.row = None THEN response.status_code = "404"
    ELSE IF response.row.status \in {"queued", "processing"}
      THEN /\ response.status_code = "202"
           /\ response.message = TaskStatusHttpMessage(response.row.status)
    ELSE IF response.row.status = "completed"
      THEN /\ response.status_code = "200"
           /\ response.data = ToDict(response.task_id, response.row)
    ELSE /\ response.status_code = "500"
         /\ response.message = response.row.error_message

\* the probe of pipeline c revealed a total above the limit, limit enabled
Oversized(c) ==
  /\ limit_file_size
  /\ HasTotal(probed[c])
  /\ probed[c].total > MAX_FILE_SIZE

\* the row is FAILED with the size message
EndedOversized(t) ==
  /\ store[t].status = "failed"
  /\ Contains(store[t].error_message, "size exceeds the limit")

\* C23: a URL task whose ranged probe reveals a total size above
\* MAX_FILE_SIZE, with the size limit enabled, never starts the full download,
\* leaves no file in the temp directory, never holds a model handle, enqueues
\* one FAILED update whose error_message contains "size exceeds the limit",
\* and ends FAILED with that message in the Store.
C23_OversizedFails ==
  /\ [](\A c \in Clients : Oversized(c) =>
          /\ c \notin fetched
          /\ c[2] \notin temp
          /\ c[2] \notin file_path
          /\ held[c] = NoHandle
          /\ pipe[c] \in {"done", "idle"}
          /\ Len(enq[c]) = 1
          /\ enq[c][1].data.status = "failed"
          /\ Contains(enq[c][1].data.error_message, "size exceeds the limit"))
  /\ \A c \in Clients : Oversized(c) ~> [] EndedOversized(c[2])

C23_Witness ==
  \E c, d \in Clients :
    /\ Oversized(c)
    /\ EndedOversized(c[2])
    /\ d[2] \in temp

\* C24: get_model(strategy="existing") returns a free handle without creating
\* one when a handle is there within the timeout; after a timeout with
\* current_size < max_size it creates exactly one handle, raising current_size
\* by exactly one, and returns a handle; at max_size it raises and leaves the
\* pool as it was.
C24_ExistingStrategy ==
  [][\A c \in PoolCallers :
       /\ (pipe[c] = "wait" /\ pipe'[c] = "transcribe") =>
            /\ held'[c] = Head(pool)
            /\ pool' = Tail(pool)
            /\ current_size' = current_size
       /\ (pipe[c] = "locked" /\ pipe'[c] = "created") =>
            /\ Len(pool') = Len(pool) + 1
            /\ current_size' = current_size + 1
       /\ (pipe[c] = "created" /\ pipe'[c] = "transcribe") =>
            /\ held'[c] # NoHandle
            /\ current_size' = current_size
       /\ (pipe[c] = "timedout" /\ pipe'[c] = "idle") => UNCHANGED poolVars]_vars

\* C25: every call of get_model(strategy="existing") with a finite timeout
\* ends: the caller gets a handle or the call raises, whatever the other
\* callers do, also when the creation of the new handle fails or another
\* caller takes the new handle first.
C25_GetModelTerminates ==
  \A c \in PoolCallers :
    pipe[c] \in {"wait", "timedout", "locked", "created"} ~> pipe[c] \in {"transcribe", "idle"}

\* C26: a call of get_model(strategy="dynamic") ends: entered with
\* current_size < max_size it creates one handle and returns a handle, entered
\* at max_size it waits for a free handle up to the timeout and then raises.
C26_DynamicTerminates ==
  \A c \in PoolCallers :
    pipe[c] \in {"dynamic", "dwait"} ~> pipe[c] \in {"transcribe", "idle"}

\* a step in which caller c hands its handle back
ReturnStep(c) == pipe[c] = "transcribe" /\ pipe'[c] \in {"idle", "done"}

\* C27: return_model puts the handle back when the queue is not full, and
\* destroys it and lowers current_size by one when the queue is full; the
\* number of free handles never exceeds max_size and current_size is never
\* negative.
C27_ReturnModel ==
  /\ [][\A c \in Clients : ReturnStep(c) =>
         /\ held'[c] = NoHandle
         /\ IF Len(pool) < maxsize
              THEN pool' = Append(pool, held[c]) /\ current_size' = current_size
              ELSE pool' = pool /\ current_size' = current_size - 1]_vars
  /\ [](Len(pool) <= max_size /\ current_size >= 0)

\* C28: a call resize_pool(new_min, new_max) with new_min <= new_max ends,
\* and when it returns new_min <= current_size <= new_max, also while
\* handles are checked out.
C28_ResizeTerminates ==
  /\ (resizePc # "idle") ~> (resizePc = "idle")
  /\ [][(resizePc # "idle" /\ resizePc' = "idle") =>
         (min_size' <= current_size' /\ current_size' <= max_size')]_vars

\* the pipelines that hold handle h
HeldBy(h) == {c \in Clients : held[c] = h}

\* the places of handle h on the free queue
FreeSlots(h) == {i \in 1..Len(pool) : pool[i] = h}

\* C29: a handle is held by at most one pipeline and is not on the free queue
\* while it is held; a pipeline holds a handle exactly while it transcribes;
\* every handle a pipeline acquired is put back once, by the step that ends
\* the transcription with a result or with an exception; a pipeline that ends
\* without having acquired a handle puts nothing on the queue.
C29_HandleOwnership ==
  /\ [](\A h \in Handles : Cardinality(HeldBy(h)) + Cardinality(FreeSlots(h)) <= 1)
  /\ [](\A c \in Clients : held[c] # NoHandle <=> pipe[c] = "transcribe")
  /\ [][\A c \in Clients :
         /\ (held[c] # NoHandle /\ held'[c] # held[c]) =>
              /\ held'[c] = NoHandle
              /\ pool' = Append(pool, held[c])
              /\ pipe'[c] = "done"
              /\ Len(enq'[c]) = Len(enq[c]) + 1
         /\ (pipe[c] \notin {"transcribe", "done"} /\ pipe'[c] = "done") =>
              pool' = pool]_vars

C29_Witness ==
  \E c, d \in Clients :
    /\ Len(enq[c]) = 1 /\ enq[c][1].data.status = "completed"
    /\ Len(enq[d]) = 1 /\ enq[d][1].exc = EngineError
    /\ \A x \in Clients : held[x] = NoHandle
    /\ pool # <<>>

\* how many items of queue q carry task t
Count(q, t) == Cardinality({i \in 1..Len(q) : q[i] = t})

\* the batch of pipeline c has ended and c enqueued its one update
BatchOver(c) == pipe[c] = "idle" /\ Len(enq[c]) = 1

\* C30: every task of a claimed batch gets exactly one cleanup item and
\* exactly one callback item, whether its pipeline succeeded or failed, and
\* gets them only once its pipeline has finished and enqueued its terminal
\* update; the items are queued by the step that ends the batch and by no
\* other.
C30_WorkItems ==
  /\ [](\A c \in Clients :
          /\ Count(cleanup_queue[c[1]], c[2]) = (IF BatchOver(c) THEN 1 ELSE 0)
          /\ Count(callback_queue[c[1]], c[2]) = (IF BatchOver(c) THEN 1 ELSE 0))
  /\ [][\A p \in Procs :
         (cleanup_queue'[p] # cleanup_queue[p] \/ callback_queue'[p] # callback_queue[p]) =>
           /\ workerPc[p] = "gather"
           /\ \A t \in Range(batch[p]) :
                /\ pipe[<<p, t>>] = "done"
                /\ Len(enq[<<p, t>>]) = 1
                /\ enq[<<p, t>>][1].data.status \in Terminal]_vars

C30_Witness ==
  \E c, d \in Clients :
    /\ BatchOver(c) /\ enq[c][1].data.status = "completed"
    /\ BatchOver(d) /\ enq[d][1].data.status = "failed"
    /\ Count(cleanup_queue[c[1]], c[2]) = 1
    /\ Count(callback_queue[d[1]], d[2]) = 1

\* the step commits the oldest item of p's update_queue to the Store
CommitsHead(p) ==
  /\ update_queue[p] # <<>>
  /\ update_queue'[p] = Tail(update_queue[p])
  /\ LET u == Head(update_queue[p]) IN
       store' = IF u.id \in rows THEN [store EXCEPT ![u.id] = u.data @@ @] ELSE store

\* the step puts one item at the back of p's update_queue
PutsLast(p) ==
  /\ Len(update_queue'[p]) = Len(update_queue[p]) + 1
  /\ SubSeq(update_queue'[p], 1, Len(update_queue[p])) = update_queue[p]

\* the step changes result or error_message of a row that stays in the table
WritesResult(t) ==
  /\ t \in rows'
  /\ \/ store'[t].result # store[t].result
     \/ store'[t].error_message # store[t].error_message

\* C31: the update worker commits the items of update_queue one at a time in
\* the order they were enqueued: a queue only grows at its back and only
\* shrinks by its oldest item, whose update is the one committed, so a later
\* update of a task is never committed before an earlier one; and result and
\* error_message of a row change only in such a commit step
C31_UpdatesInOrder ==
  [][/\ \A p \in Procs :
          update_queue'[p] # update_queue[p] => (CommitsHead(p) \/ PutsLast(p))
     /\ \A t \in Tasks :
          WritesResult(t) =>
            \E p \in Procs : CommitsHead(p) /\ Head(update_queue[p]).id = t]_vars

\* one update was committed while a later one of another task still waits
C31_Witness ==
  \E p \in Procs : \E t \in rows :
    /\ Len(update_queue[p]) = 1
    /\ Head(update_queue[p]).id # t
    /\ store[t].status \in Terminal
    /\ store[Head(update_queue[p]).id].status = "processing"

\* C32: when the processor has closed after stop(), nothing is left in
\* update_queue, cleanup_queue or callback_queue, and no row whose pipeline
\* has enqueued its terminal update is still PROCESSING.
C32_ShutdownDrains ==
  loopPc[1] = "closed" =>
    /\ update_queue[1] = <<>>
    /\ cleanup_queue[1] = <<>>
    /\ callback_queue[1] = <<>>
    /\ \A t \in rows : enq[<<1, t>>] # <<>> => store[t].status # "processing"

\* C33: an operation of the Store makes at most _max_retries connection
\* attempts, and an operation that ends while the Store still fails ends by
\* raising an error.
C33_BoundedReconnect ==
  /\ attempts <= max_retries
  /\ (dbOp = "none" /\ dbFault # "none") => dbResult = "raised"

\* C34: a mutation of the Store that fails part-way leaves every row and
\* every field as it was before the call.
C34_AllOrNothing ==
  [][(mutation' # mutation /\ mutation'.failed) => (store' = store /\ rows' = rows)]_vars

\* the max_size the pool is said to store for the given argument and host
NormalizedMaxSize(max_size_arg, num_gpus, num_cpu_threads) ==
  LET m == Max(1, max_size_arg)
  IN IF num_gpus = 0
       THEN IF num_cpu_threads <= 4 THEN 1 ELSE Min(m, Max(1, num_cpu_threads \div 2))
       ELSE IF num_gpus = 1 THEN 1 ELSE Min(m, num_gpus * max_instances_per_gpu)

\* C35: a construction that is not rejected for min_size > max_size succeeds
\* on every host; and where get_optimal_max_size returns, it returns 1 without
\* GPU and with at most 4 CPU threads, min(max_size, max(1, cpu_threads / 2))
\* without GPU and with more threads, 1 with one GPU, and min(max_size, N x
\* max_instances_per_gpu) with N >= 2 GPUs, a max_size below 1 counting as 1.
C35_MaxSizeNormalized ==
  /\ [][(initPc = "unbuilt" /\ initPc' \notin {"unbuilt", "ValueError"})
          => initPc' = "new"]_vars
  /\ [](\A m \in 0..MaxPool : \A g \in GpuCounts : \A n \in CpuThreads :
          ~OptimalMaxSizeRaises(g) =>
            OptimalMaxSize(m, g, n) = NormalizedMaxSize(m, g, n))

\* the engine's device setting asks for automatic selection
AutoDevice ==
  \/ allocation.engine = "faster_whisper" /\ allocation.fast_whisper_device = "auto"
  \/ allocation.engine = "openai_whisper" /\ allocation.openai_whisper_device = Null

\* C36: with automatic device selection, for either engine, instance i is
\* loaded on the CPU with float32 when there is no GPU, on GPU 0 with float16
\* when there is one GPU, and on GPU i mod N with float16 when there are
\* N >= 2 GPUs.
C36_DeviceAllocation ==
  (allocation # None /\ AutoDevice) =>
    IF allocation.num_gpus = 0
      THEN allocation.gpu = NoIndex /\ allocation.compute_type = "float32"
      ELSE /\ allocation.gpu = allocation.instance_index % allocation.num_gpus
           /\ allocation.compute_type = "float16"

\* C37: also when claim cycles fail, every fetch request of the processing
\* worker is answered, every QUEUED task is eventually claimed, and every
\* task that was flipped to PROCESSING eventually reaches a terminal status.
C37_FailedCycleRecovers ==
  /\ (workerPc[1] = "await") ~> (workerPc[1] # "await")
  /\ \A t \in Tasks : (t \in rows /\ Status(t) = "queued") ~> (Status(t) # "queued")
  /\ \A t \in Tasks : (Status(t) = "processing") ~> (Status(t) \in Terminal)

\* handles checked out by callers
CheckedOut == {c \in Clients : held[c] # NoHandle}

\* C38: in every reachable state current_size is the number of live handles:
\* those free in the queue plus those checked out by callers.
C38_PoolAccounting == current_size = Len(pool) + Cardinality(CheckedOut)

\* fetch answers and batches of processor p that are under way: the batch the
\* fetch worker is flipping, those on task_processing_queue, the one running
Outstanding(p) ==
  (IF fetchBatch[p] # <<>> THEN 1 ELSE 0) + Len(task_processing_queue[p])
    + (IF batch[p] # <<>> THEN 1 ELSE 0)

\* no pipeline of processor p is running and no batch is being gathered
Quiet(p) == batch[p] = <<>> /\ \A t \in Tasks : pipe[<<p, t>>] = "idle"

\* C39: the processor has at most one fetch request and at most one batch
\* under way; a fetch request is put, and a task is flipped from QUEUED to
\* PROCESSING, only while no task of an earlier batch is in its pipeline,
\* whatever the priority of the waiting task and whether or not handles are
\* free.
C39_BatchBarrier ==
  /\ [](fetch_queue[1] <= 1 /\ Outstanding(1) <= 1)
  /\ [][fetch_queue'[1] > fetch_queue[1] => Quiet(1)]_vars
  /\ [][\A t \in Tasks :
          (store[t].status = "queued" /\ store'[t].status = "processing") => Quiet(1)]_vars

\* a HIGH task waits QUEUED while a batch is transcribing and a handle is free
C39_Witness ==
  \E t, u \in rows :
    /\ workerPc[1] = "gather"
    /\ pipe[<<1, t>>] = "transcribe"
    /\ store[u].status = "queued"
    /\ attrs[u].priority = "high"
    /\ pool # <<>>
    /\ fetch_queue[1] = 0

\* the batch of task t is over and its cleanup item has been taken
Cleaned(t) == BatchOver(<<1, t>>) /\ t \notin Range(cleanup_queue[1])

\* the pipeline of task t has run to its end
PipelineFinished(t) == pipe[<<1, t>>] = "idle" /\ enq[<<1, t>>] # <<>>

\* C40: once a task is terminal and its cleanup item has been processed, no
\* file created for it remains under the temp root (completed downloads,
\* downloads that failed part-way, rejected file types), and a task's file
\* is deleted only after its pipeline has finished.
C40_TempFilesRemoved ==
  /\ [](\A t \in rows : (Status(t) \in Terminal /\ Cleaned(t)) => t \notin temp)
  /\ [][\A t \in Tasks : (t \in temp /\ t \notin temp') => PipelineFinished(t)]_vars

\* a FAILED task whose cleanup item was processed and whose partial download
\* is still under the temp root
C40_PartialFileLeft ==
  \E t \in rows :
    /\ Status(t) = "failed"
    /\ Cleaned(t)
    /\ t \in temp
    /\ t \notin file_path

====
